---------------------------- MODULE Spec2Model ----------------------------
(***************************************************************************)
(* A model of the multiplayer blackjack backend:                           *)
(*   lambda_handlers/blackjack_models.py  (cards, hands, the round engine) *)
(*   lambda_handlers/game_service.py      (the handlers that load the      *)
(*                                         stored game, apply one engine   *)
(*                                         call and store it again)        *)
(*   lambda_handlers/websocket_handler.py (leave / disconnect)             *)
(*                                                                         *)
(* The engine's methods are operators over a game record g; each returns   *)
(* [ok, g]: ok is FALSE when the method raised or returned False, and g is *)
(* the object as the call left it (a method that raises half way leaves    *)
(* its earlier assignments in place, as Python does).                      *)
(***************************************************************************)
EXTENDS Integers, Sequences, FiniteSets, TLC

VARIABLES
    deck,                 \* BlackjackGameState.deck.cards
    dealer_hand,          \* BlackjackGameState.dealer_hand.cards
    players,              \* BlackjackGameState.players : player_number -> PlayerState
    phase,                \* BlackjackGameState.phase
    current_player_turn,  \* BlackjackGameState.current_player_turn (NONE = None)
    round_active,         \* BlackjackGameState.round_active
    sessions,             \* sessions table: connection -> player_number (NONE: in
                          \* no game yet, GONE: the session was removed)
    user_chips,           \* user chips table: user_id -> chip_balance
    last,                 \* the last request handled and whether it succeeded
    rounds,               \* number of rounds started so far
    inflight,             \* connection -> the request a handler invocation is
                          \* carrying out, with the game it read from the table
    now,                  \* time.time(), in seconds
    ad_rows,              \* user chips table: user_id -> the last_ad_claim and
                          \* total_ads_watched of the row, for the rows that
                          \* hold them
    ad_claims             \* user_id -> the timestamp of the user's latest
                          \* claim_ad_reward that succeeded

gamevars == <<deck, dealer_hand, players, phase, current_player_turn, round_active>>
advars == <<now, ad_rows, ad_claims>>
vars == <<deck, dealer_hand, players, phase, current_player_turn, round_active,
          sessions, user_chips, last, rounds, inflight, now, ad_rows, ad_claims>>

-----------------------------------------------------------------------------
(* Bounds of the model *)

\* websocket connections that take part
MaxConn == 2
\* rounds started in one behaviour
MaxRounds == 2
\* largest stake a client offers
MaxBet == 2
\* start_betting_phase rebuilds the shoe below this many cards: the model's
\* shoes are short, where the program's hold 312 cards and are rebuilt below 52
ReshuffleBelow == 8

\* Optional[int] = None for current_player_turn
NONE == 0
\* a session that remove_session deleted
GONE == -1
MAX_PLAYERS == 5
\* initial_balance, the chips of a user the ledger does not know yet (the
\* program's default is 1000)
StartBalance == 3

-----------------------------------------------------------------------------
(* Card, Deck, BlackjackHand *)

Card(r, s) == [rank |-> r, suit |-> s]

RankInt(r) ==
    CASE r = "2" -> 2 [] r = "3" -> 3 [] r = "4" -> 4 [] r = "5" -> 5
      [] r = "6" -> 6 [] r = "7" -> 7 [] r = "8" -> 8 [] r = "9" -> 9
      [] r = "10" -> 10

\* Card.value
CardValue(c) ==
    IF c.rank \in {"J", "Q", "K"} THEN 10
    ELSE IF c.rank = "A" THEN 11
    ELSE RankInt(c.rank)

RECURSIVE RawSum(_)
RawSum(cards) ==
    IF cards = <<>> THEN 0
    ELSE (IF Head(cards).rank = "A" THEN 11 ELSE CardValue(Head(cards)))
         + RawSum(Tail(cards))

RECURSIVE AceCount(_)
AceCount(cards) ==
    IF cards = <<>> THEN 0
    ELSE (IF Head(cards).rank = "A" THEN 1 ELSE 0) + AceCount(Tail(cards))

\* a faulty adjustment, against which C23 is tested: a hand over 21 has all
\* its aces counted as 1
AdjustAces_DemotesAll(value, aces) ==
    IF value > 21 THEN value - 10 * aces ELSE value

RECURSIVE AdjustAces(_, _)
AdjustAces(value, aces) ==
    IF value > 21 /\ aces > 0 THEN AdjustAces(value - 10, aces - 1) ELSE value

\* BlackjackHand.calculate_value
calculate_value(cards) == AdjustAces(RawSum(cards), AceCount(cards))

\* BlackjackHand.is_bust
is_bust(cards) == calculate_value(cards) > 21

\* BlackjackHand.is_blackjack
is_blackjack(cards) == Len(cards) = 2 /\ calculate_value(cards) = 21

\* Deck.RANKS and Suit, as far as the model's shoe uses them
RANKS == <<"A", "5", "8", "K">>
SUITS == <<"hearts", "diamonds", "clubs">>

\* the shoe before it is shuffled: Card(rank, suit) for suit in Suit for rank
\* in RANKS (the program's shoe is six such decks of 52 cards)
FreshShoe ==
    [i \in 1..(Len(SUITS) * Len(RANKS)) |->
        Card(RANKS[((i - 1) % Len(RANKS)) + 1], SUITS[((i - 1) \div Len(RANKS)) + 1])]

\* the shoe whose ranks come in the order rs: the k-th card of a rank is of
\* the k-th suit
MkShoe(rs) ==
    [i \in 1..Len(rs) |->
        Card(rs[i], SUITS[Cardinality({j \in 1..i : rs[j] = rs[i]})])]

\* the orders random.shuffle leaves the shoe in: the model draws the shuffled
\* shoe from these permutations of FreshShoe
Shuffles ==
    { MkShoe(<<"A", "A", "8", "K", "K", "5", "5", "8", "K", "8", "A", "5">>),
      MkShoe(<<"A", "8", "A", "K", "8", "K", "5", "K", "5", "A", "8", "5">>),
      MkShoe(<<"8", "5", "K", "8", "5", "5", "A", "K", "K", "A", "8", "A">>),
      MkShoe(<<"A", "8", "A", "5", "K", "8", "5", "K", "A", "K", "8", "5">>),
      MkShoe(<<"A", "8", "K", "K", "5", "8", "8", "5", "A", "K", "A", "5">>) }

-----------------------------------------------------------------------------
(* PlayerState *)

\* Optional[BlackjackHand]: <<>> is None, <<cards>> is a hand
NoHand == <<>>
SomeHand(cards) == <<cards>>

\* PlayerState.__init__
PlayerState(n, u, b) ==
    [ player_number |-> n, user_id |-> u, balance |-> b,
      hand |-> <<>>, split_hand |-> NoHand,
      current_bet |-> 0, split_bet |-> 0,
      has_bet |-> FALSE, has_acted |-> FALSE,
      stood |-> FALSE, busted |-> FALSE,
      split_stood |-> FALSE, split_busted |-> FALSE,
      result |-> "none", split_result |-> "none",
      can_double_down |-> FALSE, can_split |-> FALSE,
      has_split |-> FALSE, playing_split_hand |-> FALSE ]

-----------------------------------------------------------------------------
(* BlackjackGameState *)

Game == [ deck |-> deck, dealer_hand |-> dealer_hand, players |-> players,
          phase |-> phase, current_player_turn |-> current_player_turn,
          round_active |-> round_active ]

\* BlackjackGameState.__init__ with the shoe as shuffled
NewGame(shoe) ==
    [ deck |-> shoe, dealer_hand |-> <<>>, players |-> <<>>,
      phase |-> "waiting", current_player_turn |-> NONE, round_active |-> FALSE ]

Ok(g) == [ok |-> TRUE, g |-> g]
Raise(g) == [ok |-> FALSE, g |-> g]

\* sorted(...) of a set of player numbers
RECURSIVE Sorted(_)
Sorted(S) ==
    IF S = {} THEN <<>>
    ELSE LET m == CHOOSE x \in S : \A y \in S : x <= y
         IN <<m>> \o Sorted(S \ {m})

\* a faulty add_player, against which C24 is tested: the table is never full
add_player_NoLimit(g, n, u, b) ==
    IF n \in DOMAIN g.players THEN Raise(g)
    ELSE Ok([g EXCEPT !.players =
                [m \in DOMAIN g.players \cup {n} |->
                    IF m = n THEN PlayerState(n, u, b) ELSE g.players[m]]])

\* add_player
add_player(g, n, u, b) ==
    IF Cardinality(DOMAIN g.players) >= MAX_PLAYERS THEN Raise(g)
    ELSE IF n \in DOMAIN g.players THEN Raise(g)
    ELSE Ok([g EXCEPT !.players =
                [m \in DOMAIN g.players \cup {n} |->
                    IF m = n THEN PlayerState(n, u, b) ELSE g.players[m]]])

\* remove_player
remove_player(g, n) ==
    IF n \in DOMAIN g.players
    THEN Ok([g EXCEPT !.players = [m \in DOMAIN g.players \ {n} |-> g.players[m]]])
    ELSE Raise(g)

\* a faulty reset, against which C29 is tested: the bets and the split flags
\* are kept
ResetPlayer_KeepsSplit(p) ==
    [p EXCEPT !.hand = <<>>, !.split_hand = NoHand,
              !.has_bet = FALSE, !.has_acted = FALSE,
              !.stood = FALSE, !.busted = FALSE,
              !.split_stood = FALSE, !.split_busted = FALSE,
              !.result = "none", !.split_result = "none",
              !.can_double_down = FALSE, !.can_split = FALSE]

ResetPlayer(p) ==
    [p EXCEPT !.hand = <<>>, !.split_hand = NoHand,
              !.current_bet = 0, !.split_bet = 0,
              !.has_bet = FALSE, !.has_acted = FALSE,
              !.stood = FALSE, !.busted = FALSE,
              !.split_stood = FALSE, !.split_busted = FALSE,
              !.result = "none", !.split_result = "none",
              !.can_double_down = FALSE, !.can_split = FALSE,
              !.has_split = FALSE, !.playing_split_hand = FALSE]

\* a faulty start_betting_phase, against which C30 is tested: the shoe is
\* rebuilt before every round
start_betting_phase_AlwaysRebuilds(g, shoe) ==
    IF DOMAIN g.players = {} THEN Ok(g)
    ELSE Ok([g EXCEPT
            !.players = [n \in DOMAIN g.players |-> ResetPlayer(g.players[n])],
            !.dealer_hand = <<>>,
            !.phase = "betting",
            !.current_player_turn = NONE,
            !.round_active = TRUE,
            !.deck = shoe])

\* start_betting_phase; shoe is the order the reshuffle leaves, if it happens
start_betting_phase(g, shoe) ==
    IF DOMAIN g.players = {} THEN Ok(g)
    ELSE Ok([g EXCEPT
            !.players = [n \in DOMAIN g.players |-> ResetPlayer(g.players[n])],
            !.dealer_hand = <<>>,
            !.phase = "betting",
            !.current_player_turn = NONE,
            !.round_active = TRUE,
            !.deck = IF Len(g.deck) < ReshuffleBelow THEN shoe ELSE g.deck])

\* a faulty place_bet, against which C5 is tested: the balance is not checked
place_bet_UncheckedBalance(g, n, amount) ==
    IF n \notin DOMAIN g.players THEN Raise(g)
    ELSE IF amount <= 0 THEN Raise(g)
    ELSE Ok([g EXCEPT !.players[n].current_bet = amount,
                      !.players[n].balance = @ - amount,
                      !.players[n].has_bet = TRUE])

\* place_bet
place_bet(g, n, amount) ==
    IF n \notin DOMAIN g.players THEN Raise(g)
    ELSE IF amount <= 0 \/ amount > g.players[n].balance THEN Raise(g)
    ELSE Ok([g EXCEPT !.players[n].current_bet = amount,
                      !.players[n].balance = @ - amount,
                      !.players[n].has_bet = TRUE])

\* all_bets_placed
all_bets_placed(g) == \A n \in DOMAIN g.players : g.players[n].has_bet

\* a faulty scan, against which C12 is tested: a busted seat is not skipped
_get_next_player_turn_BustedNotSkipped(g, current_player) ==
    LET after == IF current_player \in DOMAIN g.players THEN current_player ELSE 0
        pending == { n \in DOMAIN g.players :
                        /\ n > after
                        /\ ~g.players[n].has_acted /\ ~g.players[n].stood }
    IN IF pending = {} THEN NONE
       ELSE CHOOSE n \in pending : \A m \in pending : n <= m

\* _get_next_player_turn
_get_next_player_turn(g, current_player) ==
    LET player_numbers == Sorted(DOMAIN g.players)
        start_idx ==
            IF current_player = NONE THEN 1
            ELSE IF current_player \in DOMAIN g.players
                 THEN (CHOOSE i \in 1..Len(player_numbers) :
                          player_numbers[i] = current_player) + 1
                 ELSE 1
        pending == { i \in start_idx..Len(player_numbers) :
                        LET p == g.players[player_numbers[i]]
                        IN ~p.has_acted /\ ~p.busted /\ ~p.stood }
    IN IF pending = {} THEN NONE
       ELSE player_numbers[CHOOSE i \in pending : \A j \in pending : i <= j]

\* the tail shared by hit, stand, double_down, hit_split and stand_split:
\* mark the seat as having acted and pass the turn on
AdvanceTurn(g, n) ==
    LET g1 == [g EXCEPT !.players[n].has_acted = TRUE]
        nxt == _get_next_player_turn(g1, n)
    IN [g1 EXCEPT !.current_player_turn = nxt,
                  !.phase = IF nxt = NONE THEN "dealer_turn" ELSE @]


\* Deck.deal(1)[0] appended to the hand of each target in turn; a target is a
\* player number, or NONE for the dealer.  Raises when the shoe is empty,
\* leaving the cards dealt so far where they are.
RECURSIVE DealTo(_, _)
DealTo(g, targets) ==
    IF targets = <<>> THEN Ok(g)
    ELSE IF Len(g.deck) < 1 THEN Raise(g)
    ELSE LET c == Head(g.deck)
             t == Head(targets)
             g1 == IF t = NONE
                   THEN [g EXCEPT !.deck = Tail(@), !.dealer_hand = Append(@, c)]
                   ELSE [g EXCEPT !.deck = Tail(@),
                                  !.players[t].hand = Append(@, c)]
         IN DealTo(g1, Tail(targets))

\* a faulty resolution, against which C9 is tested: the push is not refunded
\* and the round is left active
ResolveDealerBlackjack_NoRefund(g) ==
    [g EXCEPT
        !.players = [n \in DOMAIN g.players |->
            LET p == g.players[n]
            IN IF ~p.has_bet THEN p
               ELSE IF is_blackjack(p.hand)
                    THEN [p EXCEPT !.result = "push",
                                   !.has_acted = TRUE, !.stood = TRUE]
                    ELSE [p EXCEPT !.result = "lose",
                                   !.has_acted = TRUE, !.stood = TRUE]],
        !.phase = "round_over"]

\* start_playing_phase, the branch taken when the dealer holds a natural
ResolveDealerBlackjack(g) ==
    [g EXCEPT
        !.players = [n \in DOMAIN g.players |->
            LET p == g.players[n]
            IN IF ~p.has_bet THEN p
               ELSE IF is_blackjack(p.hand)
                    THEN [p EXCEPT !.result = "push",
                                   !.balance = @ + p.current_bet,
                                   !.has_acted = TRUE, !.stood = TRUE]
                    ELSE [p EXCEPT !.result = "lose",
                                   !.has_acted = TRUE, !.stood = TRUE]],
        !.phase = "round_over",
        !.round_active = FALSE]

\* faulty options, against which C33 is tested: any two cards may be split
SetPlayerOptions_SplitAnyHand(p) ==
    IF ~p.has_bet THEN p
    ELSE LET q == [p EXCEPT !.can_double_down = TRUE,
                            !.can_split = (p.balance >= p.current_bet)]
         IN IF is_blackjack(p.hand)
            THEN [q EXCEPT !.has_acted = TRUE, !.stood = TRUE]
            ELSE q

\* start_playing_phase, the options each betting seat is given after the deal
SetPlayerOptions(p) ==
    IF ~p.has_bet THEN p
    ELSE LET q == [p EXCEPT !.can_double_down = TRUE,
                            !.can_split = (p.hand[1].rank = p.hand[2].rank
                                           /\ p.balance >= p.current_bet)]
         IN IF is_blackjack(p.hand)
            THEN [q EXCEPT !.has_acted = TRUE, !.stood = TRUE]
            ELSE q

\* a faulty deal, against which C28 is tested: each seat, then the dealer, is
\* given both its cards at once
start_playing_phase_TwoAtOnce(g) ==
    IF g.phase # "betting" \/ ~all_bets_placed(g) THEN Raise(g)
    ELSE LET pass == Sorted({n \in DOMAIN g.players : g.players[n].has_bet})
                        \o <<NONE>>
             twice == [i \in 1..(2 * Len(pass)) |-> pass[(i + 1) \div 2]]
             d == DealTo(g, twice)
         IN IF ~d.ok THEN d
            ELSE IF is_blackjack(d.g.dealer_hand)
                 THEN Ok(ResolveDealerBlackjack(d.g))
                 ELSE LET g1 == [d.g EXCEPT
                                   !.players = [n \in DOMAIN d.g.players |->
                                                   SetPlayerOptions(d.g.players[n])],
                                   !.phase = "playing"]
                      IN Ok([g1 EXCEPT !.current_player_turn =
                                          _get_next_player_turn(g1, NONE)])

\* start_playing_phase
start_playing_phase(g) ==
    IF g.phase # "betting" \/ ~all_bets_placed(g) THEN Raise(g)
    ELSE LET pass == Sorted({n \in DOMAIN g.players : g.players[n].has_bet})
                        \o <<NONE>>
             d == DealTo(g, pass \o pass)
         IN IF ~d.ok THEN d
            ELSE IF is_blackjack(d.g.dealer_hand)
                 THEN Ok(ResolveDealerBlackjack(d.g))
                 ELSE LET g1 == [d.g EXCEPT
                                   !.players = [n \in DOMAIN d.g.players |->
                                                   SetPlayerOptions(d.g.players[n])],
                                   !.phase = "playing"]
                      IN Ok([g1 EXCEPT !.current_player_turn =
                                          _get_next_player_turn(g1, NONE)])

\* faulty checks, against which C3 is tested: the turn is not compared
CanAct_AnySeat(g, n) ==
    /\ g.phase = "playing"
    /\ n \in DOMAIN g.players

\* the checks every playing action starts with; players[player_number] raises
\* KeyError for a seat that is not in the map
CanAct(g, n) ==
    /\ g.phase = "playing"
    /\ g.current_player_turn = n
    /\ n \in DOMAIN g.players

\* a faulty hit_split, against which C15 is tested: the split hand is hit
\* whether or not the first hand is finished
hit_split_BeforeFirstHand(g, n) ==
    IF ~CanAct(g, n) THEN Raise(g)
    ELSE IF ~g.players[n].has_split THEN Raise(g)
    ELSE IF Len(g.deck) < 1 THEN Raise(g)
    ELSE LET c == Head(g.deck)
             g1 == [g EXCEPT !.deck = Tail(@),
                             !.players[n].split_hand =
                                 SomeHand(Append(@[1], c))]
         IN IF is_bust(g1.players[n].split_hand[1])
            THEN Ok(AdvanceTurn([g1 EXCEPT !.players[n].split_busted = TRUE,
                                           !.players[n].split_result = "lose"], n))
            ELSE Ok(g1)

\* hit_split
hit_split(g, n) ==
    IF ~CanAct(g, n) THEN Raise(g)
    ELSE IF ~g.players[n].has_split THEN Raise(g)
    ELSE IF ~g.players[n].playing_split_hand THEN Raise(g)
    ELSE IF Len(g.deck) < 1 THEN Raise(g)
    ELSE LET c == Head(g.deck)
             g1 == [g EXCEPT !.deck = Tail(@),
                             !.players[n].split_hand =
                                 SomeHand(Append(@[1], c))]
         IN IF is_bust(g1.players[n].split_hand[1])
            THEN Ok(AdvanceTurn([g1 EXCEPT !.players[n].split_busted = TRUE,
                                           !.players[n].split_result = "lose"], n))
            ELSE Ok(g1)

\* stand_split
stand_split(g, n) ==
    IF ~CanAct(g, n) THEN Raise(g)
    ELSE IF ~g.players[n].has_split THEN Raise(g)
    ELSE IF ~g.players[n].playing_split_hand THEN Raise(g)
    ELSE Ok(AdvanceTurn([g EXCEPT !.players[n].split_stood = TRUE], n))

\* a faulty end of the primary hand, against which C13 is tested: the turn
\* is passed on although the seat has a split hand to play
EndPrimaryHand_PassesTurn(g, n) == AdvanceTurn(g, n)

\* the end of the primary hand in hit, stand and double_down: a seat that has
\* split goes on to its split hand, any other seat has acted
EndPrimaryHand(g, n) ==
    IF g.players[n].has_split
    THEN [g EXCEPT !.players[n].playing_split_hand = TRUE]
    ELSE AdvanceTurn(g, n)

\* hit
hit(g, n) ==
    IF ~CanAct(g, n) THEN Raise(g)
    ELSE IF g.players[n].has_split /\ g.players[n].playing_split_hand
         THEN hit_split(g, n)
    ELSE IF Len(g.deck) < 1 THEN Raise(g)
    ELSE LET c == Head(g.deck)
             g1 == [g EXCEPT !.deck = Tail(@),
                             !.players[n].hand = Append(@, c),
                             !.players[n].can_double_down = FALSE,
                             !.players[n].can_split = FALSE]
         IN IF is_bust(g1.players[n].hand)
            THEN Ok(EndPrimaryHand([g1 EXCEPT !.players[n].busted = TRUE,
                                              !.players[n].result = "lose"], n))
            ELSE Ok(g1)

\* stand
stand(g, n) ==
    IF ~CanAct(g, n) THEN Raise(g)
    ELSE IF g.players[n].has_split /\ g.players[n].playing_split_hand
         THEN stand_split(g, n)
    ELSE Ok(EndPrimaryHand([g EXCEPT !.players[n].stood = TRUE], n))

\* double_down, on the split hand
DoubleDownSplitHand(g, n) ==
    LET p == g.players[n]
    IN IF ~p.can_double_down THEN Raise(g)
       ELSE IF p.split_bet > p.balance THEN Raise(g)
       ELSE LET g1 == [g EXCEPT !.players[n].balance = @ - p.split_bet,
                                !.players[n].split_bet = @ * 2]
            IN IF Len(g1.deck) < 1 THEN Raise(g1)
               ELSE LET c == Head(g1.deck)
                        g2 == [g1 EXCEPT !.deck = Tail(@),
                                         !.players[n].split_hand =
                                             SomeHand(Append(@[1], c)),
                                         !.players[n].can_double_down = FALSE,
                                         !.players[n].can_split = FALSE]
                        g3 == IF is_bust(g2.players[n].split_hand[1])
                              THEN [g2 EXCEPT !.players[n].split_busted = TRUE,
                                              !.players[n].split_result = "lose"]
                              ELSE [g2 EXCEPT !.players[n].split_stood = TRUE]
                    IN Ok(AdvanceTurn(g3, n))

\* a faulty double down, against which C27 is tested: the stake is taken
\* but the bet is not doubled
DoubleDownHand_BetNotDoubled(g, n) ==
    LET p == g.players[n]
    IN IF ~p.can_double_down THEN Raise(g)
       ELSE IF p.current_bet > p.balance THEN Raise(g)
       ELSE LET g1 == [g EXCEPT !.players[n].balance = @ - p.current_bet]
            IN IF Len(g1.deck) < 1 THEN Raise(g1)
               ELSE LET c == Head(g1.deck)
                        g2 == [g1 EXCEPT !.deck = Tail(@),
                                         !.players[n].hand = Append(@, c),
                                         !.players[n].can_double_down = FALSE,
                                         !.players[n].can_split = FALSE]
                        g3 == IF is_bust(g2.players[n].hand)
                              THEN [g2 EXCEPT !.players[n].busted = TRUE,
                                              !.players[n].result = "lose"]
                              ELSE [g2 EXCEPT !.players[n].stood = TRUE]
                    IN Ok(EndPrimaryHand(g3, n))

\* a faulty double down, against which C32 is tested: the balance is not
\* compared with the bet
DoubleDownHand_UncheckedBalance(g, n) ==
    LET p == g.players[n]
    IN IF ~p.can_double_down THEN Raise(g)
       ELSE LET g1 == [g EXCEPT !.players[n].balance = @ - p.current_bet,
                                !.players[n].current_bet = @ * 2]
            IN IF Len(g1.deck) < 1 THEN Raise(g1)
               ELSE LET c == Head(g1.deck)
                        g2 == [g1 EXCEPT !.deck = Tail(@),
                                         !.players[n].hand = Append(@, c),
                                         !.players[n].can_double_down = FALSE,
                                         !.players[n].can_split = FALSE]
                        g3 == IF is_bust(g2.players[n].hand)
                              THEN [g2 EXCEPT !.players[n].busted = TRUE,
                                              !.players[n].result = "lose"]
                              ELSE [g2 EXCEPT !.players[n].stood = TRUE]
                    IN Ok(EndPrimaryHand(g3, n))

\* double_down, on the regular hand (or the first hand of a split)
DoubleDownHand(g, n) ==
    LET p == g.players[n]
    IN IF ~p.can_double_down THEN Raise(g)
       ELSE IF p.current_bet > p.balance THEN Raise(g)
       ELSE LET g1 == [g EXCEPT !.players[n].balance = @ - p.current_bet,
                                !.players[n].current_bet = @ * 2]
            IN IF Len(g1.deck) < 1 THEN Raise(g1)
               ELSE LET c == Head(g1.deck)
                        g2 == [g1 EXCEPT !.deck = Tail(@),
                                         !.players[n].hand = Append(@, c),
                                         !.players[n].can_double_down = FALSE,
                                         !.players[n].can_split = FALSE]
                        g3 == IF is_bust(g2.players[n].hand)
                              THEN [g2 EXCEPT !.players[n].busted = TRUE,
                                              !.players[n].result = "lose"]
                              ELSE [g2 EXCEPT !.players[n].stood = TRUE]
                    IN Ok(EndPrimaryHand(g3, n))

\* double_down
double_down(g, n) ==
    IF ~CanAct(g, n) THEN Raise(g)
    ELSE IF g.players[n].has_split /\ g.players[n].playing_split_hand
         THEN DoubleDownSplitHand(g, n)
         ELSE DoubleDownHand(g, n)

\* a faulty split, against which C26 is tested: the second bet is not taken
\* from the balance
split_SecondBetFree(g, n) ==
    IF ~CanAct(g, n) THEN Raise(g)
    ELSE LET p == g.players[n]
         IN IF ~p.can_split THEN Raise(g)
            ELSE IF p.current_bet > p.balance THEN Raise(g)
            ELSE IF p.has_split THEN Raise(g)
            \* hand.cards.pop(1) raises IndexError on a hand of fewer than two cards
            ELSE IF Len(p.hand) < 2 THEN Raise(g)
            ELSE
              \* hand.cards.pop(1), the split hand, the second bet
              LET g1 == [g EXCEPT
                          !.players[n].hand = <<p.hand[1]>> \o SubSeq(p.hand, 3, Len(p.hand)),
                          !.players[n].split_hand = SomeHand(<<p.hand[2]>>),
                          !.players[n].split_bet = p.current_bet]
              IN IF Len(g1.deck) < 1 THEN Raise(g1)
                 ELSE LET g2 == [g1 EXCEPT !.deck = Tail(@),
                                           !.players[n].hand = Append(@, Head(g1.deck))]
                      IN IF Len(g2.deck) < 1 THEN Raise(g2)
                         ELSE LET g3 == [g2 EXCEPT
                                    !.deck = Tail(@),
                                    !.players[n].split_hand =
                                        SomeHand(Append(@[1], Head(g2.deck))),
                                    !.players[n].has_split = TRUE,
                                    !.players[n].can_split = FALSE,
                                    !.players[n].can_double_down = TRUE,
                                    !.players[n].playing_split_hand = FALSE]
                              IN IF is_blackjack(g3.players[n].hand)
                                 THEN Ok([g3 EXCEPT !.players[n].stood = TRUE])
                                 ELSE Ok(g3)

\* split
split(g, n) ==
    IF ~CanAct(g, n) THEN Raise(g)
    ELSE LET p == g.players[n]
         IN IF ~p.can_split THEN Raise(g)
            ELSE IF p.current_bet > p.balance THEN Raise(g)
            ELSE IF p.has_split THEN Raise(g)
            \* hand.cards.pop(1) raises IndexError on a hand of fewer than two cards
            ELSE IF Len(p.hand) < 2 THEN Raise(g)
            ELSE
              \* hand.cards.pop(1), the split hand, the second bet
              LET g1 == [g EXCEPT
                          !.players[n].hand = <<p.hand[1]>> \o SubSeq(p.hand, 3, Len(p.hand)),
                          !.players[n].split_hand = SomeHand(<<p.hand[2]>>),
                          !.players[n].balance = @ - p.current_bet,
                          !.players[n].split_bet = p.current_bet]
              IN IF Len(g1.deck) < 1 THEN Raise(g1)
                 ELSE LET g2 == [g1 EXCEPT !.deck = Tail(@),
                                           !.players[n].hand = Append(@, Head(g1.deck))]
                      IN IF Len(g2.deck) < 1 THEN Raise(g2)
                         ELSE LET g3 == [g2 EXCEPT
                                    !.deck = Tail(@),
                                    !.players[n].split_hand =
                                        SomeHand(Append(@[1], Head(g2.deck))),
                                    !.players[n].has_split = TRUE,
                                    !.players[n].can_split = FALSE,
                                    !.players[n].can_double_down = TRUE,
                                    !.players[n].playing_split_hand = FALSE]
                              IN IF is_blackjack(g3.players[n].hand)
                                 THEN Ok([g3 EXCEPT !.players[n].stood = TRUE])
                                 ELSE Ok(g3)

\* dealer_play, the dealer's draws: hit on 16 or less, stand on 17 or more
RECURSIVE DealerDraw(_)
DealerDraw(g) ==
    IF calculate_value(g.dealer_hand) < 17
    THEN IF Len(g.deck) < 1 THEN Raise(g)
         ELSE DealerDraw([g EXCEPT !.deck = Tail(@),
                                   !.dealer_hand = Append(@, Head(g.deck))])
    ELSE Ok(g)

\* a faulty settlement, against which C6 is tested: a push refunds nothing
SettleHand_PushKeepsStake(p, dealer) ==
    LET dealer_value == calculate_value(dealer)
        player_value == calculate_value(p.hand)
        player_blackjack == is_blackjack(p.hand) /\ ~p.has_split
    IN IF p.result # "none" THEN p
       ELSE IF player_blackjack
            THEN [p EXCEPT !.result = "blackjack",
                           !.balance = @ + ((p.current_bet * 5) \div 2)]
       ELSE IF is_bust(dealer) \/ player_value > dealer_value
            THEN [p EXCEPT !.result = "win", !.balance = @ + p.current_bet * 2]
       ELSE IF dealer_value > player_value THEN [p EXCEPT !.result = "lose"]
       ELSE [p EXCEPT !.result = "push"]

\* a faulty settlement, against which C7 is tested: a natural is paid as a win
SettleHand_NaturalPaidAsWin(p, dealer) ==
    LET dealer_value == calculate_value(dealer)
        player_value == calculate_value(p.hand)
        player_blackjack == is_blackjack(p.hand) /\ ~p.has_split
    IN IF p.result # "none" THEN p
       ELSE IF player_blackjack
            THEN [p EXCEPT !.result = "blackjack", !.balance = @ + p.current_bet * 2]
       ELSE IF is_bust(dealer) \/ player_value > dealer_value
            THEN [p EXCEPT !.result = "win", !.balance = @ + p.current_bet * 2]
       ELSE IF dealer_value > player_value THEN [p EXCEPT !.result = "lose"]
       ELSE [p EXCEPT !.result = "push", !.balance = @ + p.current_bet]

\* a faulty settlement, against which C8 is tested: has_split is not looked at
SettleHand_NaturalAfterSplit(p, dealer) ==
    LET dealer_value == calculate_value(dealer)
        player_value == calculate_value(p.hand)
        player_blackjack == is_blackjack(p.hand)
    IN IF p.result # "none" THEN p
       ELSE IF player_blackjack
            THEN [p EXCEPT !.result = "blackjack",
                           !.balance = @ + ((p.current_bet * 5) \div 2)]
       ELSE IF is_bust(dealer) \/ player_value > dealer_value
            THEN [p EXCEPT !.result = "win", !.balance = @ + p.current_bet * 2]
       ELSE IF dealer_value > player_value THEN [p EXCEPT !.result = "lose"]
       ELSE [p EXCEPT !.result = "push", !.balance = @ + p.current_bet]

\* a faulty settlement, against which C25 is tested: a hand that already has
\* a result is settled again
SettleHand_SettlesAgain(p, dealer) ==
    LET dealer_value == calculate_value(dealer)
        player_value == calculate_value(p.hand)
        player_blackjack == is_blackjack(p.hand) /\ ~p.has_split
    IN IF player_blackjack /\ is_blackjack(dealer)
            THEN [p EXCEPT !.result = "push", !.balance = @ + p.current_bet]
       ELSE IF player_blackjack
            THEN [p EXCEPT !.result = "blackjack",
                           !.balance = @ + ((p.current_bet * 5) \div 2)]
       ELSE IF is_blackjack(dealer) THEN [p EXCEPT !.result = "lose"]
       ELSE IF is_bust(dealer)
            THEN [p EXCEPT !.result = "win", !.balance = @ + p.current_bet * 2]
       ELSE IF dealer_value > player_value THEN [p EXCEPT !.result = "lose"]
       ELSE IF player_value > dealer_value
            THEN [p EXCEPT !.result = "win", !.balance = @ + p.current_bet * 2]
       ELSE [p EXCEPT !.result = "push", !.balance = @ + p.current_bet]

\* dealer_play, the result of a player's first hand
SettleHand(p, dealer) ==
    LET dealer_value == calculate_value(dealer)
        dealer_busted == is_bust(dealer)
        dealer_blackjack == is_blackjack(dealer)
        player_value == calculate_value(p.hand)
        player_blackjack == is_blackjack(p.hand) /\ ~p.has_split
    IN IF p.result # "none" THEN p
       ELSE IF player_blackjack /\ dealer_blackjack
            THEN [p EXCEPT !.result = "push", !.balance = @ + p.current_bet]
       ELSE IF player_blackjack
            THEN [p EXCEPT !.result = "blackjack",
                           !.balance = @ + ((p.current_bet * 5) \div 2)]
       ELSE IF dealer_blackjack THEN [p EXCEPT !.result = "lose"]
       ELSE IF dealer_busted
            THEN [p EXCEPT !.result = "win", !.balance = @ + p.current_bet * 2]
       ELSE IF dealer_value > player_value THEN [p EXCEPT !.result = "lose"]
       ELSE IF player_value > dealer_value
            THEN [p EXCEPT !.result = "win", !.balance = @ + p.current_bet * 2]
       ELSE [p EXCEPT !.result = "push", !.balance = @ + p.current_bet]

\* a faulty settlement, against which C31 is tested: a split hand is settled
\* against the dealer even when it already has its result
SettleSplitHand_PaysBust(p, dealer) ==
    LET dealer_value == calculate_value(dealer)
        dealer_busted == is_bust(dealer)
        dealer_blackjack == is_blackjack(dealer)
    IN IF ~p.has_split THEN p
       ELSE LET split_value == calculate_value(p.split_hand[1])
            IN IF dealer_blackjack THEN [p EXCEPT !.split_result = "lose"]
               ELSE IF dealer_busted
                    THEN [p EXCEPT !.split_result = "win",
                                   !.balance = @ + p.split_bet * 2]
               ELSE IF dealer_value > split_value
                    THEN [p EXCEPT !.split_result = "lose"]
               ELSE IF split_value > dealer_value
                    THEN [p EXCEPT !.split_result = "win",
                                   !.balance = @ + p.split_bet * 2]
               ELSE [p EXCEPT !.split_result = "push",
                              !.balance = @ + p.split_bet]

\* dealer_play, the result of a player's split hand
SettleSplitHand(p, dealer) ==
    LET dealer_value == calculate_value(dealer)
        dealer_busted == is_bust(dealer)
        dealer_blackjack == is_blackjack(dealer)
    IN IF ~(p.has_split /\ p.split_result = "none") THEN p
       ELSE LET split_value == calculate_value(p.split_hand[1])
            IN IF dealer_blackjack THEN [p EXCEPT !.split_result = "lose"]
               ELSE IF dealer_busted
                    THEN [p EXCEPT !.split_result = "win",
                                   !.balance = @ + p.split_bet * 2]
               ELSE IF dealer_value > split_value
                    THEN [p EXCEPT !.split_result = "lose"]
               ELSE IF split_value > dealer_value
                    THEN [p EXCEPT !.split_result = "win",
                                   !.balance = @ + p.split_bet * 2]
               ELSE [p EXCEPT !.split_result = "push",
                              !.balance = @ + p.split_bet]

\* a faulty dealer_play, against which C11 is tested: the phase is not checked
dealer_play_AnyPhase(g) ==
    LET d == DealerDraw(g)
    IN IF ~d.ok THEN d
       ELSE Ok([d.g EXCEPT
               !.players = [n \in DOMAIN d.g.players |->
                   SettleSplitHand(SettleHand(d.g.players[n], d.g.dealer_hand),
                                   d.g.dealer_hand)],
               !.phase = "round_over",
               !.round_active = FALSE])

\* dealer_play
dealer_play(g) ==
    IF g.phase # "dealer_turn" THEN Raise(g)
    ELSE LET d == DealerDraw(g)
         IN IF ~d.ok THEN d
            ELSE Ok([d.g EXCEPT
                    !.players = [n \in DOMAIN d.g.players |->
                        SettleSplitHand(SettleHand(d.g.players[n], d.g.dealer_hand),
                                        d.g.dealer_hand)],
                    !.phase = "round_over",
                    !.round_active = FALSE])

-----------------------------------------------------------------------------
(* GameService and the websocket handlers.  A handler reads the stored game,
   applies engine calls to its copy and stores the copy; when anything raises
   before update_item the stored game stays as it was.  Each operator below
   returns [ok, g, history]: g is the game the handler stores (when ok), and
   history tells whether _save_hand_history ran. *)

Connections == 1..MaxConn
\* the user behind a connection
UserOf(c) == <<"u1", "u2", "u3", "u4", "u5", "u6">>[c]
Amounts == 0..MaxBet

Done(g, h) == [ok |-> TRUE, g |-> g, history |-> h]
Failed(g) == [ok |-> FALSE, g |-> g, history |-> FALSE]

\* _get_user_chip_balance
_get_user_chip_balance(chips, u, default_balance) ==
    IF u \in DOMAIN chips THEN chips[u] ELSE default_balance

\* _update_user_chips for every player, as _save_hand_history does
_save_hand_history(chips, g) ==
    IF g.phase # "round_over" THEN chips
    ELSE LET written == {g.players[n].user_id : n \in DOMAIN g.players}
         IN [u \in DOMAIN chips \cup written |->
                IF u \in written
                THEN LET n == CHOOSE m \in DOMAIN g.players : g.players[m].user_id = u
                     IN g.players[n].balance
                ELSE chips[u]]

\* GameService.join_game: the first free player number
FreeSeat(g) ==
    LET free == {i \in 1..MAX_PLAYERS : i \notin DOMAIN g.players}
    IN IF free = {} THEN NONE ELSE CHOOSE i \in free : \A j \in free : i <= j

\* GameService.join_game
svc_join_game(g, u, chips) ==
    IF Cardinality(DOMAIN g.players) >= MAX_PLAYERS THEN Failed(g)
    ELSE IF FreeSeat(g) = NONE THEN Failed(g)
    ELSE LET r == add_player(g, FreeSeat(g), u,
                             _get_user_chip_balance(chips, u, StartBalance))
         IN Done(r.g, FALSE)

\* GameService.start_round; n is the session's player_number
svc_start_round(g, n, shoe) ==
    IF n \in {NONE, GONE} THEN Failed(g)
    ELSE IF g.phase \notin {"waiting", "round_over"} THEN Failed(g)
    ELSE IF DOMAIN g.players = {} THEN Failed(g)
    ELSE Done(start_betting_phase(g, shoe).g, FALSE)

\* a faulty GameService.place_bet, against which C34 is tested: the phase is
\* not looked at
svc_place_bet_AnyPhase(g, n, amount) ==
    IF n \in {NONE, GONE} THEN Failed(g)
    ELSE IF n \notin DOMAIN g.players THEN Failed(g)
    ELSE LET b == place_bet(g, n, amount)
         IN IF ~b.ok THEN Failed(b.g)
            ELSE IF all_bets_placed(b.g)
                 THEN LET d == start_playing_phase(b.g)
                      IN IF d.ok THEN Done(d.g, FALSE) ELSE Failed(d.g)
                 ELSE Done(b.g, FALSE)

\* GameService.place_bet
svc_place_bet(g, n, amount) ==
    IF n \in {NONE, GONE} THEN Failed(g)
    ELSE IF g.phase # "betting" THEN Failed(g)
    ELSE IF n \notin DOMAIN g.players THEN Failed(g)
    ELSE LET b == place_bet(g, n, amount)
         IN IF ~b.ok THEN Failed(b.g)
            ELSE IF all_bets_placed(b.g)
                 THEN LET d == start_playing_phase(b.g)
                      IN IF d.ok THEN Done(d.g, FALSE) ELSE Failed(d.g)
                 ELSE Done(b.g, FALSE)

\* GameService.hit, stand and double_down after the engine call: the dealer
\* plays as soon as the phase is dealer_turn, then the hand history is saved
ThenDealer(r) ==
    IF ~r.ok THEN Failed(r.g)
    ELSE IF r.g.phase = "dealer_turn"
         THEN LET d == dealer_play(r.g)
              IN IF d.ok THEN Done(d.g, TRUE) ELSE Failed(d.g)
         ELSE Done(r.g, FALSE)

\* GameService.hit
svc_hit(g, n) == IF n \in {NONE, GONE} THEN Failed(g) ELSE ThenDealer(hit(g, n))

\* GameService.stand
svc_stand(g, n) == IF n \in {NONE, GONE} THEN Failed(g) ELSE ThenDealer(stand(g, n))

\* GameService.double_down
svc_double_down(g, n) ==
    IF n \in {NONE, GONE} THEN Failed(g) ELSE ThenDealer(double_down(g, n))

\* GameService.split
svc_split(g, n) ==
    IF n \in {NONE, GONE} THEN Failed(g)
    ELSE LET r == split(g, n) IN IF r.ok THEN Done(r.g, FALSE) ELSE Failed(r.g)

\* ws_leave_game and handle_disconnect: the seat is removed and, when it held
\* the turn, the turn is recomputed and the dealer plays if no seat is pending
RemoveSeat(g, n) ==
    LET was_players_turn == (g.current_player_turn = n)
        g1 == remove_player(g, n).g
    IN IF was_players_turn /\ g1.phase = "playing"
       THEN LET nxt == _get_next_player_turn(g1, NONE)
                g2 == [g1 EXCEPT !.current_player_turn = nxt]
            IN IF nxt = NONE
               THEN LET d == dealer_play([g2 EXCEPT !.phase = "dealer_turn"])
                    IN IF d.ok THEN Done(d.g, FALSE) ELSE Failed(d.g)
               ELSE Done(g2, FALSE)
       ELSE Done(g1, FALSE)

-----------------------------------------------------------------------------
(* The handlers as atomic steps on the stored game *)

\* the clock when the game is created
StartTime == 300

\* no claim_ad_reward has been made: no row of the user chips table holds
\* last_ad_claim or total_ads_watched
NoAds ==
    /\ now = StartTime
    /\ ad_rows = [u \in {} |-> 0]
    /\ ad_claims = [u \in {} |-> 0]

NoCall == [op |-> "create_game", seat |-> 1, ok |-> TRUE]

\* no handler invocation is under way for the connection
NoRequest == [op |-> "none"]

\* the state GameService.create_game leaves: connection 1 holds seat 1
Init ==
    /\ \E shoe \in Shuffles :
        LET g == add_player(NewGame(shoe), 1, UserOf(1), StartBalance).g
        IN /\ deck = g.deck
           /\ dealer_hand = g.dealer_hand
           /\ players = g.players
           /\ phase = g.phase
           /\ current_player_turn = g.current_player_turn
           /\ round_active = g.round_active
    /\ sessions = [c \in Connections |-> IF c = 1 THEN 1 ELSE NONE]
    /\ user_chips = [u \in {UserOf(1)} |-> StartBalance]
    /\ last = NoCall
    /\ rounds = 0
    /\ inflight = [c \in Connections |-> NoRequest]
    /\ NoAds

\* games_table.update_item, reached only when nothing raised before it
Store(r) ==
    /\ deck' = (IF r.ok THEN r.g.deck ELSE deck)
    /\ dealer_hand' = (IF r.ok THEN r.g.dealer_hand ELSE dealer_hand)
    /\ players' = (IF r.ok THEN r.g.players ELSE players)
    /\ phase' = (IF r.ok THEN r.g.phase ELSE phase)
    /\ current_player_turn' =
          (IF r.ok THEN r.g.current_player_turn ELSE current_player_turn)
    /\ round_active' = (IF r.ok THEN r.g.round_active ELSE round_active)

\* a request that fails changes nothing (the client is sent an error): only
\* the requests that are carried out are steps
Handled(op, n, r) == r.ok /\ last' = [op |-> op, seat |-> n, ok |-> r.ok]

JoinGame(c) ==
    LET r == svc_join_game(Game, UserOf(c), user_chips)
    IN /\ sessions[c] = NONE
       /\ Store(r)
       /\ sessions' = IF r.ok THEN [sessions EXCEPT ![c] = FreeSeat(Game)]
                      ELSE sessions
       \* _get_user_chip_balance stores the default for a user it does not know
       /\ user_chips' =
             IF r.ok /\ UserOf(c) \notin DOMAIN user_chips
             THEN [u \in DOMAIN user_chips \cup {UserOf(c)} |->
                      IF u = UserOf(c) THEN StartBalance ELSE user_chips[u]]
             ELSE user_chips
       /\ Handled("join_game", IF r.ok THEN FreeSeat(Game) ELSE NONE, r)
       /\ UNCHANGED <<rounds, inflight, advars>>

StartRound(c, shoe) ==
    LET r == svc_start_round(Game, sessions[c], shoe)
    IN /\ rounds < MaxRounds
       /\ Store(r)
       /\ Handled("start_round", sessions[c], r)
       /\ rounds' = IF r.ok THEN rounds + 1 ELSE rounds
       /\ UNCHANGED <<sessions, user_chips, inflight, advars>>

PlaceBet(c, amount) ==
    LET r == svc_place_bet(Game, sessions[c], amount)
    IN /\ Store(r)
       /\ Handled("place_bet", sessions[c], r)
       /\ UNCHANGED <<sessions, user_chips, rounds, inflight, advars>>

\* hit, stand and double_down store the game and, when the round was settled,
\* have written every player's balance to the user chips table
Played(op, c, r) ==
    /\ Store(r)
    /\ user_chips' = IF r.ok /\ r.history
                     THEN _save_hand_history(user_chips, r.g) ELSE user_chips
    /\ Handled(op, sessions[c], r)
    /\ UNCHANGED <<sessions, rounds, inflight, advars>>

Hit(c) == Played("hit", c, svc_hit(Game, sessions[c]))

Stand(c) == Played("stand", c, svc_stand(Game, sessions[c]))

DoubleDown(c) == Played("double_down", c, svc_double_down(Game, sessions[c]))

Split(c) == Played("split", c, svc_split(Game, sessions[c]))

\* ws_leave_game: the session is removed after the game is stored
LeaveGame(c) ==
    LET r == IF sessions[c] \in {NONE, GONE} THEN Failed(Game)
             ELSE RemoveSeat(Game, sessions[c])
    IN /\ Store(r)
       /\ sessions' = IF r.ok THEN [sessions EXCEPT ![c] = GONE] ELSE sessions
       /\ Handled("leave_game", sessions[c], r)
       /\ UNCHANGED <<user_chips, rounds, inflight, advars>>

\* handle_disconnect: the session is removed first, and an error while the
\* game is updated is only logged
Disconnect(c) ==
    LET r == RemoveSeat(Game, sessions[c])
    IN /\ sessions[c] \notin {NONE, GONE}
       /\ Store(r)
       /\ sessions' = [sessions EXCEPT ![c] = GONE]
       /\ last' = [op |-> "disconnect", seat |-> sessions[c], ok |-> r.ok]
       /\ UNCHANGED <<user_chips, rounds, inflight, advars>>

Next ==
    \/ \E c \in Connections : JoinGame(c)
    \/ \E c \in Connections, shoe \in Shuffles : StartRound(c, shoe)
    \/ \E c \in Connections, a \in Amounts : PlaceBet(c, a)
    \/ \E c \in Connections : Hit(c)
    \/ \E c \in Connections : Stand(c)
    \/ \E c \in Connections : DoubleDown(c)
    \/ \E c \in Connections : Split(c)
    \/ \E c \in Connections : LeaveGame(c)
    \/ \E c \in Connections : Disconnect(c)

Spec == Init /\ [][Next]_vars

-----------------------------------------------------------------------------
(* _get_next_player_turn on its own: the scan applied to seat maps of up to
   TurnSeats seats with every combination of flags a seat can have *)

\* the seats of the maps the scan is applied to
TurnSeats == 3

\* (has_acted, busted, stood) as the playing actions can leave them: a seat
\* has acted only after its hand was stood or busted
SeatFlags ==
    { f \in [has_acted : BOOLEAN, busted : BOOLEAN, stood : BOOLEAN] :
         f.has_acted => (f.busted \/ f.stood) }

TurnInit ==
    /\ \E S \in SUBSET (1..TurnSeats) : \E f \in [S -> SeatFlags] :
          players = [n \in S |->
                       [PlayerState(n, UserOf(n), StartBalance) EXCEPT
                           !.has_bet = TRUE,
                           !.has_acted = f[n].has_acted,
                           !.busted = f[n].busted,
                           !.stood = f[n].stood]]
    /\ deck = <<>>
    /\ dealer_hand = <<>>
    /\ phase = "playing"
    /\ current_player_turn = NONE
    /\ round_active = TRUE
    /\ sessions = [c \in Connections |-> NONE]
    /\ user_chips = <<>>
    /\ last = NoCall
    /\ rounds = 0
    /\ inflight = [c \in Connections |-> NoRequest]
    /\ NoAds

\* self.current_player_turn = self._get_next_player_turn(current_player)
NextTurn(current_player) ==
    /\ current_player \in {NONE} \cup DOMAIN players
    /\ current_player_turn' = _get_next_player_turn(Game, current_player)
    /\ last' = [op |-> "next_turn", seat |-> current_player, ok |-> TRUE]
    /\ UNCHANGED <<deck, dealer_hand, players, phase, round_active,
                   sessions, user_chips, rounds, inflight, advars>>

TurnNext == \E current_player \in 0..TurnSeats : NextTurn(current_player)

TurnSpec == TurnInit /\ [][TurnNext]_vars

-----------------------------------------------------------------------------
(* The handlers as the table sees them: a handler invocation reads the game
   with get_item, computes on its copy and writes the copy back with
   update_item; invocations for different connections run side by side. *)

\* the requests whose handlers are followed step by step
Requests ==
    {[op |-> "place_bet", amount |-> a] : a \in 1..MaxBet}
        \cup {[op |-> "hit", amount |-> 0], [op |-> "stand", amount |-> 0]}

\* games_table.get_item at the start of place_bet, hit and stand
Load(c, req) ==
    /\ inflight[c] = NoRequest
    /\ sessions[c] \notin {NONE, GONE}
    /\ inflight' = [inflight EXCEPT ![c] =
                        [op |-> req.op, seat |-> sessions[c], amount |-> req.amount,
                         snap |-> Game]]
    /\ UNCHANGED <<gamevars, sessions, user_chips, last, rounds, advars>>

\* what the handler computes from the game it read
Handle(q) ==
    CASE q.op = "place_bet" -> svc_place_bet(q.snap, q.seat, q.amount)
      [] q.op = "hit" -> svc_hit(q.snap, q.seat)
      [] q.op = "stand" -> svc_stand(q.snap, q.seat)

\* the rest of the handler: games_table.update_item with the computed game,
\* or the error response when the engine refused the request
Save(c) ==
    /\ inflight[c] # NoRequest
    /\ LET r == Handle(inflight[c])
       IN /\ Store(r)
          /\ user_chips' = IF r.ok /\ r.history
                           THEN _save_hand_history(user_chips, r.g) ELSE user_chips
          /\ last' = [op |-> inflight[c].op, seat |-> inflight[c].seat, ok |-> r.ok]
    /\ inflight' = [inflight EXCEPT ![c] = NoRequest]
    /\ UNCHANGED <<sessions, rounds, advars>>

\* start_round, for the one round the requests are followed through
StartOneRound(c, shoe) == rounds < 1 /\ StartRound(c, shoe)

ConcNext ==
    \/ \E c \in Connections : JoinGame(c)
    \/ \E c \in Connections, shoe \in Shuffles : StartOneRound(c, shoe)
    \/ \E c \in Connections, req \in Requests : Load(c, req)
    \/ \E c \in Connections : Save(c)

ConcSpec == Init /\ [][ConcNext]_vars

-----------------------------------------------------------------------------
(* What the properties below speak about *)

\* the player numbers a caller may name
Seats == 1..MAX_PLAYERS

\* the games in which a handler calls dealer_play: the stored game after a
\* hit, stand or double_down that left the phase at dealer_turn, or after the
\* seat holding the turn was removed and no seat was left pending
BeforeDealer ==
    LET acted == {hit(Game, n) : n \in DOMAIN players}
                    \cup {stand(Game, n) : n \in DOMAIN players}
                    \cup {double_down(Game, n) : n \in DOMAIN players}
        removed == { [remove_player(Game, n).g EXCEPT !.phase = "dealer_turn",
                                                      !.current_player_turn = NONE] :
                        n \in {m \in DOMAIN players :
                                 /\ current_player_turn = m
                                 /\ phase = "playing"
                                 /\ _get_next_player_turn(remove_player(Game, m).g, NONE)
                                        = NONE} }
    IN {r.g : r \in {x \in acted : x.ok /\ x.g.phase = "dealer_turn"}} \cup removed

\* the seat's first hand is an unsplit two-card 21
Natural(p) == is_blackjack(p.hand) /\ ~p.has_split

\* the result and the credit of a hand of the given value and bet that is
\* compared with the final dealer hand as an ordinary hand
PlainResult(value, dealer) ==
    IF is_bust(dealer) THEN "win"
    ELSE IF value > calculate_value(dealer) THEN "win"
    ELSE IF value = calculate_value(dealer) THEN "push"
    ELSE "lose"

PlainCredit(value, bet, dealer) ==
    CASE PlainResult(value, dealer) = "win" -> 2 * bet
      [] PlainResult(value, dealer) = "push" -> bet
      [] PlainResult(value, dealer) = "lose" -> 0

\* seat p before dealer_play and q after it: each hand that had no result is
\* settled as an ordinary hand, and the balance grows by the credits only
SettledPlain(p, q, dealer) ==
    LET first == p.result = "none"
        second == p.has_split /\ p.split_result = "none"
    IN /\ q.result = IF first THEN PlainResult(calculate_value(p.hand), dealer)
                     ELSE p.result
       /\ q.split_result =
             IF second THEN PlainResult(calculate_value(p.split_hand[1]), dealer)
             ELSE p.split_result
       /\ q.balance = p.balance
             + (IF first THEN PlainCredit(calculate_value(p.hand), p.current_bet, dealer)
                ELSE 0)
             + (IF second
                THEN PlainCredit(calculate_value(p.split_hand[1]), p.split_bet, dealer)
                ELSE 0)
       /\ [q EXCEPT !.result = p.result, !.split_result = p.split_result,
                    !.balance = p.balance] = p

-----------------------------------------------------------------------------
(* The turn and the phases *)

\* C1: in every stored game current_player_turn is set if and only if the
\* phase is playing and some seat still needs to act (has_acted is False);
\* in particular the phase is never playing while current_player_turn is None.
C1_TurnSetIffSeatPending ==
    /\ (current_player_turn # NONE) <=>
           ( /\ phase = "playing"
             /\ \E n \in DOMAIN players :
                    ~players[n].has_acted )
    /\ ~(phase = "playing" /\ current_player_turn = NONE)

\* C2: the round is never in playing with no seat able to act: whenever the
\* phase is playing, the seat holding the turn is seated and its playing
\* actions are accepted.
C2_PlayingHasSeatAbleToAct ==
    phase = "playing" => \E n \in DOMAIN players : CanAct(Game, n)

\* the other seat's turn: the actions of a seat that does not hold the turn
\* are to fail without a trace
C3_Witness ==
    /\ phase = "playing"
    /\ last.op = "hit"
    /\ \E n \in DOMAIN players :
          /\ n # current_player_turn
          /\ current_player_turn \in DOMAIN players
          /\ players[n].has_bet /\ ~players[n].has_acted

\* C3: hit, stand, double_down and split succeed only when the phase is
\* playing and the acting seat holds the turn; in any other phase, or for any
\* other seat, each of them fails and leaves the whole game as it was.
C3_PlayingActionsNeedPhaseAndTurn ==
    \A n \in Seats :
        ~(phase = "playing" /\ current_player_turn = n) =>
            /\ ~hit(Game, n).ok /\ hit(Game, n).g = Game
            /\ ~stand(Game, n).ok /\ stand(Game, n).g = Game
            /\ ~double_down(Game, n).ok /\ double_down(Game, n).g = Game
            /\ ~split(Game, n).ok /\ split(Game, n).g = Game

-----------------------------------------------------------------------------
(* Bets *)

\* the amounts a caller may pass to place_bet for seat n: from below zero to
\* above the seat's balance
BetInputs(n) ==
    -1..(IF n \in DOMAIN players THEN players[n].balance + 1 ELSE MaxBet)

\* a bet was placed and left the seat with less than the largest stake, so
\* that both an accepted and a refused amount exist
C5_Witness ==
    /\ last.op = "place_bet"
    /\ phase = "betting"
    /\ players[last.seat].has_bet
    /\ players[last.seat].current_bet = MaxBet
    /\ players[last.seat].balance = StartBalance - MaxBet
    /\ players[last.seat].balance < MaxBet

\* C5: a place_bet call with an unknown seat, an amount of zero or less, or
\* an amount above the balance fails and leaves the game as it was; any other
\* call succeeds with amount <= balance before, balance after = balance before
\* - amount, current_bet = amount and has_bet = True, whatever calls came
\* before it.
C5_PlaceBetDebitsTheAmount ==
    \A n \in Seats : \A a \in BetInputs(n) :
        LET r == place_bet(Game, n, a)
        IN IF n \notin DOMAIN players \/ a <= 0 \/ a > players[n].balance
           THEN ~r.ok /\ r.g = Game
           ELSE /\ r.ok
                /\ a <= players[n].balance
                /\ r.g.players[n].balance = players[n].balance - a
                /\ r.g.players[n].current_bet = a
                /\ r.g.players[n].has_bet
                /\ r.g = [Game EXCEPT !.players[n].balance = players[n].balance - a,
                                      !.players[n].current_bet = a,
                                      !.players[n].has_bet = TRUE]

-----------------------------------------------------------------------------
(* Settlement *)

\* C6 as stated: dealer_play settles every hand that has no result yet as an
\* ordinary hand (dealer bust: win, credit 2 x bet; else the higher value
\* wins, credit 2 x bet; equal values push, credit bet; the lower value
\* loses, credit 0), and a seat's balance changes by those credits only.
C6_EveryOpenHandSettledPlain ==
    \A g1 \in BeforeDealer :
        LET d == dealer_play(g1)
        IN d.ok =>
             \A n \in DOMAIN g1.players :
                 SettledPlain(g1.players[n], d.g.players[n], d.g.dealer_hand)

\* a round that was settled by the dealer with a seat pushing on a real bet
C6_Witness ==
    /\ phase = "round_over"
    /\ last.op \in {"hit", "stand", "double_down"}
    /\ ~is_blackjack(dealer_hand)
    /\ \E n \in DOMAIN players :
          /\ players[n].result = "push"
          /\ players[n].current_bet > 0
          /\ ~Natural(players[n])

\* C6, amended: dealer_play settles every hand that has no result yet, other
\* than an unsplit two-card natural, as an ordinary hand (win 2 x bet on a
\* dealer bust or a higher value, push refunds the bet, lose credits nothing),
\* and the seat's balance changes by those credits only.
C6_OpenHandsButNaturalsSettledPlain ==
    \A g1 \in BeforeDealer :
        LET d == dealer_play(g1)
        IN d.ok =>
             \A n \in DOMAIN g1.players :
                 ~(Natural(g1.players[n]) /\ g1.players[n].result = "none") =>
                     SettledPlain(g1.players[n], d.g.players[n], d.g.dealer_hand)

\* C7 as stated: an unsplit natural against a dealer without one gets result
\* blackjack and a credit of exactly 2.5 x bet, for odd bets too.
C7_NaturalCreditsTwoAndAHalfBets ==
    \A g1 \in BeforeDealer :
        LET d == dealer_play(g1)
        IN d.ok =>
             \A n \in DOMAIN g1.players :
                 ( /\ Natural(g1.players[n])
                   /\ g1.players[n].result = "none"
                   /\ ~is_blackjack(d.g.dealer_hand) ) =>
                     /\ d.g.players[n].result = "blackjack"
                     /\ 2 * (d.g.players[n].balance - g1.players[n].balance)
                            = 5 * g1.players[n].current_bet

\* a natural on an odd bet that was settled
C7_Witness ==
    /\ phase = "round_over"
    /\ \E n \in DOMAIN players :
          /\ players[n].result = "blackjack"
          /\ players[n].current_bet % 2 = 1

\* C7, amended: an unsplit natural against a dealer without one gets result
\* blackjack and a credit of 2.5 x bet rounded down to a whole chip: exactly
\* 2.5 x bet for an even bet, half a chip less for an odd one.
C7_NaturalCreditsTwoAndAHalfBetsRoundedDown ==
    \A g1 \in BeforeDealer :
        LET d == dealer_play(g1)
        IN d.ok =>
             \A n \in DOMAIN g1.players :
                 ( /\ Natural(g1.players[n])
                   /\ g1.players[n].result = "none"
                   /\ ~is_blackjack(d.g.dealer_hand) ) =>
                     LET credit == d.g.players[n].balance - g1.players[n].balance
                         bet == g1.players[n].current_bet
                     IN /\ d.g.players[n].result = "blackjack"
                        /\ credit = (5 * bet) \div 2
                        /\ 2 * credit = IF bet % 2 = 0 THEN 5 * bet ELSE 5 * bet - 1
                        /\ [d.g.players[n] EXCEPT !.result = "none",
                                                  !.balance = @ - credit]
                              = g1.players[n]

\* a seat that split, got a two-card 21 and was settled against the dealer
C8_Witness ==
    /\ phase = "round_over"
    /\ \E n \in DOMAIN players :
          /\ players[n].has_split
          /\ is_blackjack(players[n].hand)
          /\ players[n].result = "win"
          /\ players[n].split_result # "none"

\* C8: a seat that has split never has result or split_result blackjack and
\* is never paid 2.5 x bet: after a split a two-card 21 on either hand is
\* settled as an ordinary 21 (win 2 x bet, push or lose), and a 21 on the
\* first hand right after the split only marks that hand as stood.
C8_NoBlackjackAfterSplit ==
    /\ \A n \in DOMAIN players :
          players[n].has_split =>
              players[n].result # "blackjack" /\ players[n].split_result # "blackjack"
    /\ \A g1 \in BeforeDealer :
          LET d == dealer_play(g1)
          IN d.ok =>
               \A n \in DOMAIN g1.players :
                   g1.players[n].has_split =>
                       /\ SettledPlain(g1.players[n], d.g.players[n], d.g.dealer_hand)
                       /\ d.g.players[n].result \in {"win", "push", "lose"}
                       /\ d.g.players[n].split_result \in {"win", "push", "lose"}
    /\ \A n \in Seats :
          LET r == split(Game, n)
          IN (r.ok /\ is_blackjack(r.g.players[n].hand)) =>
                 /\ r.g.players[n].stood
                 /\ r.g.players[n].result = "none"
                 /\ r.g.players[n].split_result = "none"
                 /\ ~r.g.players[n].has_acted
                 /\ r.g.players[n].balance
                        = players[n].balance - players[n].current_bet
                 /\ r.g.current_player_turn = n /\ r.g.phase = "playing"

-----------------------------------------------------------------------------
(* The dealer *)

\* the dealer was dealt a natural against two betting seats, one of which
\* holds a natural too
C9_Witness ==
    /\ last.op = "place_bet"
    /\ is_blackjack(dealer_hand)
    /\ phase = "round_over"
    /\ \E n, m \in DOMAIN players :
          /\ players[n].result = "push" /\ is_blackjack(players[n].hand)
          /\ players[n].balance = StartBalance
          /\ players[m].result = "lose" /\ players[m].current_bet > 0

\* C9: when the two cards dealt to the dealer are a natural, start_playing_phase
\* resolves every betting seat at once (push with the bet refunded for a seat
\* holding a natural, lose without credit for any other) and the game goes
\* from betting straight to round_over, with round_active False and
\* current_player_turn None, never through playing or dealer_turn.
C9_DealerNaturalEndsRoundAtDeal ==
    /\ (last.op = "place_bet" /\ is_blackjack(dealer_hand)) =>
          /\ phase = "round_over"
          /\ ~round_active
          /\ current_player_turn = NONE
    /\ \A n \in Seats : \A a \in BetInputs(n) :
          LET b == place_bet(Game, n, a)
              d == start_playing_phase(b.g)
          IN (phase = "betting" /\ b.ok /\ d.ok /\ is_blackjack(d.g.dealer_hand)) =>
                /\ d.g.phase = "round_over"
                /\ ~d.g.round_active
                /\ d.g.current_player_turn = NONE
                /\ \A m \in DOMAIN b.g.players :
                      LET p == b.g.players[m]
                          q == d.g.players[m]
                      IN IF ~p.has_bet THEN q = p
                         ELSE /\ Len(q.hand) = 2
                              /\ q.result = IF is_blackjack(q.hand) THEN "push" ELSE "lose"
                              /\ q.balance = IF is_blackjack(q.hand)
                                             THEN p.balance + p.current_bet
                                             ELSE p.balance
                              /\ q.current_bet = p.current_bet
                              /\ q.split_result = "none"

\* every card the dealer drew was drawn on a value below 17
DrewOnlyBelow17(before, after) ==
    \A k \in Len(before)..(Len(after) - 1) :
        calculate_value(SubSeq(after, 1, k)) < 17

\* C10: dealer_play called in dealer_turn comes to an end, and then the
\* dealer's hand is worth at least 17 (or is bust), no card was drawn once
\* the value was 17 or more, the phase is round_over and round_active is False.
C10_DealerPlayEndsRoundAt17 ==
    \A g1 \in BeforeDealer :
        LET d == dealer_play(g1)
        IN /\ d.ok
           /\ calculate_value(d.g.dealer_hand) >= 17 \/ is_bust(d.g.dealer_hand)
           /\ DrewOnlyBelow17(g1.dealer_hand, d.g.dealer_hand)
           /\ d.g.phase = "round_over"
           /\ ~d.g.round_active

-----------------------------------------------------------------------------
(* Concurrent requests *)

\* C4: requests against one game are serialized: a handler whose update is
\* accepted computed it from the game that is stored at that moment (a
\* handler that read an older game is refused), so that the stored game is
\* always the result of the accepted requests applied one after another.
C4_AcceptedSaveReadTheStoredGame ==
    [][ \A c \in Connections :
           ( /\ inflight[c] # NoRequest
             /\ inflight'[c] = NoRequest
             /\ last'.ok )
           => inflight[c].snap = Game ]_vars

-----------------------------------------------------------------------------
(* dealer_play outside the dealer's turn *)

\* a round the dealer has settled, on which dealer_play is called once more
C11_Witness ==
    /\ phase = "round_over"
    /\ last.op \in {"hit", "stand", "double_down"}
    /\ Len(dealer_hand) > 2
    /\ \E n \in DOMAIN players : players[n].result = "win" /\ players[n].current_bet > 0

\* C11: dealer_play called in any phase other than dealer_turn (in particular
\* a second time, on a round_over game) fails and changes no balance, result,
\* hand or card of the shoe.
C11_DealerPlayNeedsDealerTurn ==
    phase # "dealer_turn" =>
        /\ ~dealer_play(Game).ok
        /\ dealer_play(Game).g = Game

-----------------------------------------------------------------------------
(* Turn order *)

\* the seat the scan is to return after seat after (NONE: from the first
\* seat): the lowest seat above it that has not acted, busted or stood
LowestPendingAfter(after) ==
    LET pending == { n \in DOMAIN players :
                        /\ (after = NONE \/ n > after)
                        /\ ~players[n].has_acted
                        /\ ~players[n].busted
                        /\ ~players[n].stood }
    IN IF pending = {} THEN NONE
       ELSE CHOOSE n \in pending : \A m \in pending : n <= m

\* seats 1, 2 and 3 with seat 2 busted: the turn after seat 1 went to seat 3
C12_Witness ==
    /\ DOMAIN players = {1, 2, 3}
    /\ players[2].busted /\ ~players[2].has_acted /\ ~players[2].stood
    /\ ~players[3].has_acted /\ ~players[3].busted /\ ~players[3].stood
    /\ last = [op |-> "next_turn", seat |-> 1, ok |-> TRUE]
    /\ current_player_turn = 3

\* C12: _get_next_player_turn(after) returns the lowest-numbered seat strictly
\* after seat after (from the first seat when after is None) that has not
\* acted, busted or stood, and None when there is no such seat.
C12_NextTurnIsLowestPendingAfter ==
    /\ \A after \in {NONE} \cup DOMAIN players :
          _get_next_player_turn(Game, after) = LowestPendingAfter(after)
    /\ last.op = "next_turn" => current_player_turn = LowestPendingAfter(last.seat)

-----------------------------------------------------------------------------
(* Split hands *)

\* a seat that split has played both hands and the turn went on to seat 2
C13_Witness ==
    /\ phase = "playing"
    /\ last.op \in {"hit", "stand", "double_down"}
    /\ last.seat = 1
    /\ 1 \in DOMAIN players
    /\ players[1].has_split
    /\ players[1].has_acted
    /\ players[1].split_stood \/ players[1].split_busted
    /\ current_player_turn = 2

\* C13: a seat that has split keeps current_player_turn from the split until
\* its split hand is finished: the split itself and the end of the first hand
\* (stand, bust or double down) leave the turn with the seat and only switch
\* it to the split hand, and the turn goes to another seat or to the dealer
\* only when the split hand has stood or busted and has_acted is set.
C13_SplitSeatKeepsTurn ==
    [][ \A n \in DOMAIN players \cap DOMAIN players' :
           ( /\ phase = "playing"
             /\ current_player_turn = n
             /\ players'[n].has_split )
           => /\ players[n].has_split \/ current_player_turn' = n
              /\ ~players[n].playing_split_hand =>
                    /\ current_player_turn' = n
                    /\ phase' = "playing"
                    /\ ~players'[n].has_acted
                    /\ ~players'[n].split_stood /\ ~players'[n].split_busted
                    /\ players'[n].playing_split_hand =>
                          players'[n].stood \/ players'[n].busted
              /\ current_player_turn' # n =>
                    /\ players'[n].has_acted
                    /\ players'[n].split_stood \/ players'[n].split_busted
              /\ current_player_turn' = n =>
                    /\ phase' = "playing"
                    /\ ~players'[n].has_acted
                    /\ ~players'[n].split_stood /\ ~players'[n].split_busted
      ]_vars

\* C14: in every stored game at most one seat has playing_split_hand set, and
\* every seat that has it set has has_split set, also when several seats
\* split in the same round.
C14_OneSeatPlaysSplitHand ==
    /\ Cardinality({n \in DOMAIN players : players[n].playing_split_hand}) <= 1
    /\ \A n \in DOMAIN players : players[n].playing_split_hand => players[n].has_split

\* a seat that has split and is still playing its first hand, with cards left
\* in the shoe
C15_Witness ==
    /\ phase = "playing"
    /\ last.op = "hit"
    /\ Len(deck) > 0
    /\ \E n \in DOMAIN players :
          /\ current_player_turn = n
          /\ players[n].has_split
          /\ ~players[n].stood /\ ~players[n].busted
          /\ Len(players[n].hand) = 3

\* C15: the split hand is never acted on before the first hand is resolved:
\* playing_split_hand implies that the first hand is stood or busted; while
\* the first hand is neither, the split hand holds its two cards of the split
\* and is neither split_stood nor split_busted; and a direct hit_split or
\* stand_split before the seat is on its split hand fails, changing nothing.
C15_SplitHandWaitsForFirstHand ==
    \A n \in DOMAIN players :
        /\ players[n].playing_split_hand => players[n].stood \/ players[n].busted
        /\ (players[n].has_split /\ ~players[n].stood /\ ~players[n].busted) =>
              /\ Len(players[n].split_hand[1]) = 2
              /\ ~players[n].split_stood /\ ~players[n].split_busted
              /\ players[n].split_result = "none"
        /\ ~players[n].playing_split_hand =>
              /\ ~hit_split(Game, n).ok /\ hit_split(Game, n).g = Game
              /\ ~stand_split(Game, n).ok /\ stand_split(Game, n).g = Game

-----------------------------------------------------------------------------
(* Seats without a bet *)

\* C16: a seat with has_bet False while a round is dealt or in play (a seat
\* added after the deal included) holds no card, is not returned by the turn
\* scan and does not hold current_player_turn, and at round_over it still has
\* no result and the balance it was seated with.
C16_SeatWithoutBetSitsOut ==
    \A n \in DOMAIN players :
        (~players[n].has_bet /\ phase \in {"playing", "round_over"}) =>
            /\ players[n].hand = <<>>
            /\ current_player_turn # n
            /\ phase = "playing" =>
                  \A after \in {NONE} \cup DOMAIN players :
                      _get_next_player_turn(Game, after) # n
            /\ players[n].result = "none"
            /\ players[n].balance = StartBalance

-----------------------------------------------------------------------------
(* Failing calls *)

\* C17: every call that fails, for whatever reason (wrong phase, not the
\* seat's turn, invalid bet, can_double_down or can_split False, insufficient
\* balance, or the shoe running out during a draw in split, double_down, hit,
\* the deal or dealer_play), leaves the game exactly as it was before the call.
C17_FailedCallChangesNothing ==
    /\ \A n \in Seats :
          /\ ~hit(Game, n).ok => hit(Game, n).g = Game
          /\ ~stand(Game, n).ok => stand(Game, n).g = Game
          /\ ~double_down(Game, n).ok => double_down(Game, n).g = Game
          /\ ~split(Game, n).ok => split(Game, n).g = Game
          /\ \A a \in BetInputs(n) :
                ~place_bet(Game, n, a).ok => place_bet(Game, n, a).g = Game
    /\ ~start_playing_phase(Game).ok => start_playing_phase(Game).g = Game
    /\ \A g1 \in BeforeDealer \cup {Game} :
          ~dealer_play(g1).ok => dealer_play(g1).g = g1

-----------------------------------------------------------------------------
(* The shoe during a round *)

\* the game with a full shoe in place of its own
Refilled(g) == [g EXCEPT !.deck = FreshShoe]

\* C18: with the shoe rebuilt at the start of betting whenever fewer cards
\* than the threshold remain, no draw of a round (the deal, hit, double_down,
\* split, dealer_play) asks for more cards than the shoe holds: no call fails
\* on the stored game that would have succeeded with a full shoe.
C18_NoDrawBeyondTheShoe ==
    /\ \A n \in DOMAIN players :
          /\ hit(Refilled(Game), n).ok => hit(Game, n).ok
          /\ double_down(Refilled(Game), n).ok => double_down(Game, n).ok
          /\ split(Refilled(Game), n).ok => split(Game, n).ok
          /\ \A a \in BetInputs(n) :
                LET b == place_bet(Game, n, a)
                IN (b.ok /\ start_playing_phase(Refilled(b.g)).ok)
                       => start_playing_phase(b.g).ok
    /\ \A g1 \in BeforeDealer :
          dealer_play(Refilled(g1)).ok => dealer_play(g1).ok

-----------------------------------------------------------------------------
(* Removing a seat *)

\* the seats other than n that the turn scan counts as pending
PendingWithout(n) ==
    {m \in DOMAIN players \ {n} :
        ~players[m].has_acted /\ ~players[m].busted /\ ~players[m].stood}

\* C19: when a connection leaves or disconnects, its seat is removed; if the
\* seat held current_player_turn during playing, the turn becomes the
\* lowest-numbered pending seat, or with none pending the dealer plays and the
\* round is at round_over; if it did not hold the turn, phase and turn stay
\* as they were; and afterwards the turn never names a seat outside the map.
C19_RemovalRecomputesTurn ==
    [][\A c \in Connections :
          (sessions[c] \notin {NONE, GONE} /\ sessions'[c] = GONE) =>
              LET n == sessions[c]
              IN /\ n \notin DOMAIN players'
                 /\ current_player_turn' \in {NONE} \cup DOMAIN players'
                 /\ (phase = "playing" /\ current_player_turn = n) =>
                       IF PendingWithout(n) # {}
                       THEN /\ phase' = "playing"
                            /\ current_player_turn' \in PendingWithout(n)
                            /\ \A m \in PendingWithout(n) : current_player_turn' <= m
                       ELSE /\ phase' = "round_over"
                            /\ current_player_turn' = NONE
                 /\ ~(phase = "playing" /\ current_player_turn = n) =>
                       /\ phase' = phase
                       /\ current_player_turn' = current_player_turn]_vars

-----------------------------------------------------------------------------
(* The chips ledger at the end of a round *)

\* C20: whenever a round reaches round_over, by whatever path (the last seat's
\* hit, stand or double_down, a dealer blackjack found at the deal the last
\* bet triggers, the removal of the seat that held the turn), the ledger holds
\* for every seated user the balance its seat has after settlement.
C20_LedgerWrittenAtRoundOver ==
    [][(phase # "round_over" /\ phase' = "round_over") =>
          \A n \in DOMAIN players' :
              /\ players'[n].user_id \in DOMAIN user_chips'
              /\ user_chips'[players'[n].user_id] = players'[n].balance]_vars

-----------------------------------------------------------------------------
(* to_dict and from_dict.  A dict is a function over its keys; None is <<>>
   where the value is otherwise a list, and the model's "none" and NONE
   where it is otherwise a string or a number. *)

\* str(num) for a player number, and int(player_num_str)
NumStr(n) == <<"1", "2", "3", "4", "5">>[n]
StrInt(s) == CHOOSE n \in 1..MAX_PLAYERS : NumStr(n) = s

\* Card.to_dict and Card.from_dict: the suit is written as its value
Card_to_dict(c) == [rank |-> c.rank, suit |-> c.suit]
Card_from_dict(data) == Card(data.rank, data.suit)

\* BlackjackHand.to_dict and BlackjackHand.from_dict
Hand_to_dict(cards) == [i \in 1..Len(cards) |-> Card_to_dict(cards[i])]
Hand_from_dict(data) == [i \in 1..Len(data) |-> Card_from_dict(data[i])]

\* PlayerState.to_dict: split_hand is the list of its cards, or None
PlayerState_to_dict(p) ==
    [ player_number |-> p.player_number, user_id |-> p.user_id,
      balance |-> p.balance,
      hand |-> Hand_to_dict(p.hand),
      split_hand |-> IF p.split_hand # NoHand
                     THEN <<Hand_to_dict(p.split_hand[1])>> ELSE <<>>,
      current_bet |-> p.current_bet, split_bet |-> p.split_bet,
      has_bet |-> p.has_bet, has_acted |-> p.has_acted,
      stood |-> p.stood, busted |-> p.busted,
      split_stood |-> p.split_stood, split_busted |-> p.split_busted,
      result |-> p.result, split_result |-> p.split_result,
      can_double_down |-> p.can_double_down, can_split |-> p.can_split,
      has_split |-> p.has_split, playing_split_hand |-> p.playing_split_hand ]

\* PlayerState.from_dict: a split_hand entry that is None or an empty list
\* gives no split hand
PlayerState_from_dict(data) ==
    [ PlayerState(data.player_number, data.user_id, data.balance) EXCEPT
        !.hand = Hand_from_dict(data.hand),
        !.split_hand = IF data.split_hand # <<>> /\ data.split_hand[1] # <<>>
                       THEN SomeHand(Hand_from_dict(data.split_hand[1]))
                       ELSE NoHand,
        !.current_bet = data.current_bet, !.split_bet = data.split_bet,
        !.has_bet = data.has_bet, !.has_acted = data.has_acted,
        !.stood = data.stood, !.busted = data.busted,
        !.split_stood = data.split_stood, !.split_busted = data.split_busted,
        !.result = data.result, !.split_result = data.split_result,
        !.can_double_down = data.can_double_down, !.can_split = data.can_split,
        !.has_split = data.has_split,
        !.playing_split_hand = data.playing_split_hand ]

\* the entries to_dict always writes
PublicDict(g) ==
    [ dealer_hand |-> Hand_to_dict(g.dealer_hand),
      players |-> [k \in {NumStr(n) : n \in DOMAIN g.players} |->
                      PlayerState_to_dict(g.players[StrInt(k)])],
      phase |-> g.phase,
      current_player_turn |-> g.current_player_turn,
      round_active |-> g.round_active,
      cards_remaining |-> Len(g.deck) ]

\* a faulty to_dict, against which C22 is tested: the deck is never written
to_dict_DeckOmitted(g, include_deck) == PublicDict(g)

\* BlackjackGameState.to_dict
to_dict(g, include_deck) ==
    IF include_deck
    THEN PublicDict(g) @@ [deck |-> Hand_to_dict(g.deck)]
    ELSE PublicDict(g)

\* BlackjackGameState.from_dict: data.get('deck', [])
from_dict(data) ==
    [ deck |-> IF "deck" \in DOMAIN data THEN Hand_from_dict(data.deck) ELSE <<>>,
      dealer_hand |-> Hand_from_dict(data.dealer_hand),
      players |-> [n \in {StrInt(k) : k \in DOMAIN data.players} |->
                      PlayerState_from_dict(data.players[NumStr(n)])],
      phase |-> data.phase,
      current_player_turn |-> data.current_player_turn,
      round_active |-> data.round_active ]

\* the game_state entry of the stored item, as every update_item writes it
StoredState(g) == to_dict(g, TRUE)

\* the game_state of the reply and of the broadcast of create_game, join_game,
\* start_round, place_bet, hit, stand, double_down, split, leave_game and
\* of the player_disconnected notice
ReplyState(g) == to_dict(g, FALSE)

\* GameService.get_game, sent by ws_get_game as the data of a game_state
\* message: the stored item itself
get_game(g) == [game_state |-> StoredState(g)]

\* ws_reconnect for user u: the item's player_user_id is compared with the
\* user, and no item has that entry, so the reply is an error without data
ws_reconnect(g, u) ==
    LET item == [game_id |-> "g", game_state |-> StoredState(g)]
        player_user_id == IF "player_user_id" \in DOMAIN item
                          THEN item["player_user_id"] ELSE "None"
    IN IF player_user_id # u THEN [type |-> "error"]
       ELSE [type |-> "reconnected", game_state |-> item.game_state]

\* the game states a client can be sent in the current state
OutwardStates ==
    {ReplyState(Game), get_game(Game).game_state}
        \cup {ws_reconnect(Game, UserOf(c)).game_state :
                 c \in {d \in Connections :
                            "game_state" \in DOMAIN ws_reconnect(Game, UserOf(d))}}

\* C21: no message sent to a client (action replies, broadcasts, get_game and
\* reconnect replies) carries the shoe's cards: the deck entry exists only in
\* the stored item, outward game states carry cards_remaining only.
C21_NoOutwardDeck ==
    \A s \in OutwardStates : "deck" \notin DOMAIN s /\ "cards_remaining" \in DOMAIN s

\* a game with a split seat in play, whose stored form holds a split hand, a
\* turn and a partly drawn shoe
C22_Witness ==
    /\ phase = "playing"
    /\ current_player_turn # NONE
    /\ \E n \in DOMAIN players : players[n].has_split /\ players[n].split_hand # NoHand
    /\ \E n \in DOMAIN players : players[n].result # "none"
    /\ Len(deck) > 0
    /\ from_dict(to_dict(Game, TRUE)) = Game

\* C22: storing and reloading loses nothing: from_dict(to_dict(s,
\* include_deck=True)) has the phase, turn, round_active, dealer hand, shoe
\* order and every seat's balance, hands, bets, flags and results of s, and a
\* playing action applied to the reloaded game gives what it gives on s.
C22_ReloadIsLossless ==
    LET s == from_dict(to_dict(Game, TRUE))
    IN /\ s = Game
       /\ \A n \in Seats :
             /\ hit(s, n) = hit(Game, n)
             /\ stand(s, n) = stand(Game, n)
             /\ double_down(s, n) = double_down(Game, n)
             /\ split(s, n) = split(Game, n)

-----------------------------------------------------------------------------
(* BlackjackHand on its own: hands of up to MaxHand cards of any rank, built
   card by card with add_card *)

\* cards in a hand
MaxHand == 4

\* Deck.RANKS in full
ALL_RANKS == <<"A", "2", "3", "4", "5", "6", "7", "8", "9", "10", "J", "Q", "K">>

HandInit ==
    /\ dealer_hand = <<>>
    /\ deck = <<>>
    /\ players = <<>>
    /\ phase = "waiting"
    /\ current_player_turn = NONE
    /\ round_active = FALSE
    /\ sessions = [c \in Connections |-> NONE]
    /\ user_chips = <<>>
    /\ last = [op |-> "new_hand", seat |-> NONE, ok |-> TRUE, value |-> 0]
    /\ rounds = 0
    /\ inflight = [c \in Connections |-> NoRequest]
    /\ NoAds

\* add_card, followed by calculate_value of the hand
AddCard(rank) ==
    /\ Len(dealer_hand) < MaxHand
    /\ dealer_hand' = Append(dealer_hand, Card(rank, "hearts"))
    /\ last' = [op |-> "add_card", seat |-> NONE, ok |-> TRUE,
                value |-> calculate_value(dealer_hand')]
    /\ UNCHANGED <<deck, players, phase, current_player_turn, round_active,
                   sessions, user_chips, rounds, inflight, advars>>

HandNext == \E i \in 1..Len(ALL_RANKS) : AddCard(ALL_RANKS[i])

HandSpec == HandInit /\ [][HandNext]_vars

\* the ranks of a hand
RanksOf(cards) == [i \in 1..Len(cards) |-> cards[i].rank]

\* the total of a hand with every ace counted as 1
RECURSIVE AcesAsOne(_)
AcesAsOne(cards) ==
    IF cards = <<>> THEN 0
    ELSE (CASE Head(cards).rank = "A" -> 1
            [] Head(cards).rank \in {"J", "Q", "K"} -> 10
            [] OTHER -> RankInt(Head(cards).rank))
         + AcesAsOne(Tail(cards))

\* the totals a hand can be given by counting each ace as 1 or as 11
Totals(cards) ==
    {AcesAsOne(cards) + 10 * k :
        k \in 0..Cardinality({i \in 1..Len(cards) : cards[i].rank = "A"})}

\* an ace, a six and a king: the ace was demoted and the hand is worth 17
C23_Witness ==
    /\ RanksOf(dealer_hand) = <<"A", "6", "K">>
    /\ last.op = "add_card"
    /\ last.value = 17

\* C23: the value of a hand is the largest total not above 21 that counting
\* its aces as 1 or 11 gives, or the total with every ace as 1 when all totals
\* exceed 21; it is the all-aces-as-11 sum minus 10 per demoted ace, so that
\* [A,6] = 17, [A,6,K] = 17 and not bust, [A,A] = 12 and [K,Q,A] = 21.
C23_HandValueIsBestTotal ==
    LET v == calculate_value(dealer_hand)
        fits == {t \in Totals(dealer_hand) : t <= 21}
    IN /\ last.value = v
       /\ fits # {} => v \in fits /\ \A t \in fits : t <= v
       /\ fits = {} => v = AcesAsOne(dealer_hand)
       /\ \E d \in 0..Len(dealer_hand) :
             /\ v = AcesAsOne(dealer_hand) + 10 * d
             /\ d > 0 => v <= 21
       /\ RanksOf(dealer_hand) = <<"A", "6">> => v = 17
       /\ RanksOf(dealer_hand) = <<"A", "6", "K">> => v = 17 /\ ~is_bust(dealer_hand)
       /\ RanksOf(dealer_hand) = <<"A", "A">> => v = 12
       /\ RanksOf(dealer_hand) = <<"K", "Q", "A">> => v = 21

-----------------------------------------------------------------------------
(* The seat map on its own: add_player and remove_player called with any
   player number, in any order, on a new game *)

\* player numbers offered to add_player and remove_player
MaxSeatNumber == 6

SeatInit ==
    /\ \E shoe \in Shuffles :
          LET g == NewGame(shoe)
          IN /\ deck = g.deck
             /\ dealer_hand = g.dealer_hand
             /\ players = g.players
             /\ phase = g.phase
             /\ current_player_turn = g.current_player_turn
             /\ round_active = g.round_active
    /\ sessions = [c \in Connections |-> NONE]
    /\ user_chips = <<>>
    /\ last = [op |-> "new_game", seat |-> NONE, ok |-> TRUE]
    /\ rounds = 0
    /\ inflight = [c \in Connections |-> NoRequest]
    /\ NoAds

\* add_player; the call returns False (ok) when it refuses
AddPlayer(n) ==
    LET r == add_player(Game, n, UserOf(n), StartBalance)
    IN /\ players' = r.g.players
       /\ last' = [op |-> "add_player", seat |-> n, ok |-> r.ok]
       /\ UNCHANGED <<deck, dealer_hand, phase, current_player_turn,
                      round_active, sessions, user_chips, rounds, inflight, advars>>

\* remove_player
RemovePlayer(n) ==
    LET r == remove_player(Game, n)
    IN /\ players' = r.g.players
       /\ last' = [op |-> "remove_player", seat |-> n, ok |-> r.ok]
       /\ UNCHANGED <<deck, dealer_hand, phase, current_player_turn,
                      round_active, sessions, user_chips, rounds, inflight, advars>>

SeatNext ==
    \/ \E n \in 1..MaxSeatNumber : AddPlayer(n)
    \/ \E n \in 1..MaxSeatNumber : RemovePlayer(n)

SeatSpec == SeatInit /\ [][SeatNext]_vars

\* the table holds five seats and add_player with a sixth number was refused
C24_Witness ==
    /\ Cardinality(DOMAIN players) = MAX_PLAYERS
    /\ last.op = "add_player"
    /\ last.seat \notin DOMAIN players
    /\ ~last.ok

\* C24: after any sequence of add_player and remove_player the map holds at
\* most 5 seats, each under its own number; add_player on a table of 5 or
\* for a number already seated fails and leaves the map as it was, and so
\* does remove_player of a number that is not seated.
C24_SeatMapBounded ==
    [][/\ Cardinality(DOMAIN players') <= MAX_PLAYERS
       /\ \A n \in DOMAIN players' : players'[n].player_number = n
       /\ last'.op = "add_player" =>
             IF Cardinality(DOMAIN players) >= MAX_PLAYERS
                    \/ last'.seat \in DOMAIN players
             THEN ~last'.ok /\ players' = players
             ELSE last'.ok /\ DOMAIN players' = DOMAIN players \cup {last'.seat}
       /\ last'.op = "remove_player" =>
             IF last'.seat \notin DOMAIN players
             THEN ~last'.ok /\ players' = players
             ELSE last'.ok /\ DOMAIN players' = DOMAIN players \ {last'.seat}]_vars

-----------------------------------------------------------------------------
(* Results are final *)

\* the round is over with the dealer bust, and a seat that had bust before
\* the dealer played kept its result lose
C25_Witness ==
    /\ phase = "round_over"
    /\ last.op \in {"hit", "stand", "double_down"}
    /\ is_bust(dealer_hand)
    /\ \E n \in DOMAIN players :
          players[n].has_bet /\ players[n].busted /\ players[n].result = "lose"

\* C25: within a round a hand's result is set once: a result or split_result
\* that is set stays as it is until the next start_betting_phase, a seat
\* that has its result (from a bust or from the dealer's blackjack at the
\* deal) is not settled again, and at round_over every seat that bet has a
\* result, and a split_result exactly when has_split is True.
C25_ResultSetOnce ==
    [][/\ ~(phase # "betting" /\ phase' = "betting") =>
             \A n \in DOMAIN players \cap DOMAIN players' :
                 /\ players[n].result # "none" =>
                        players'[n].result = players[n].result
                 /\ players[n].split_result # "none" =>
                        players'[n].split_result = players[n].split_result
       /\ \A n \in DOMAIN players' :
             players'[n].result # "none" =>
                 SettleHand(players'[n], dealer_hand') = players'[n]
       /\ phase' = "round_over" =>
             \A n \in DOMAIN players' :
                 players'[n].has_bet =>
                     /\ players'[n].result # "none"
                     /\ players'[n].split_result # "none" <=> players'[n].has_split]_vars

-----------------------------------------------------------------------------
(* split *)

\* a seat has just split: it holds two hands of two cards and the turn
C26_Witness ==
    /\ last.op = "split"
    /\ last.seat \in DOMAIN players
    /\ players[last.seat].has_split
    /\ Len(players[last.seat].hand) = 2
    /\ Len(players[last.seat].split_hand[1]) = 2
    /\ current_player_turn = last.seat
    /\ Cardinality(DOMAIN players) > 1

\* C26: a split that succeeds moves the second card of the hand into a new
\* split hand, deals the next card of the shoe to the hand and the one after
\* to the split hand, takes current_bet from the balance and makes it the
\* split_bet, sets has_split, clears can_split, sets can_double_down, clears
\* playing_split_hand, and leaves the turn, the phase, the dealer and every
\* other seat as they were.
C26_SplitEffect ==
    \A n \in DOMAIN players :
        LET r == split(Game, n)
            p == players[n]
            q == r.g.players[n]
        IN r.ok =>
            /\ Len(p.hand) = 2 /\ Len(deck) >= 2
            /\ q.hand = <<p.hand[1], deck[1]>>
            /\ q.split_hand = SomeHand(<<p.hand[2], deck[2]>>)
            /\ r.g.deck = SubSeq(deck, 3, Len(deck))
            /\ q.balance = p.balance - p.current_bet
            /\ q.split_bet = p.current_bet
            /\ q.current_bet = p.current_bet
            /\ q.has_split /\ ~q.can_split /\ q.can_double_down
            /\ ~q.playing_split_hand
            /\ r.g.current_player_turn = current_player_turn
            /\ r.g.phase = phase
            /\ r.g.dealer_hand = dealer_hand
            /\ DOMAIN r.g.players = DOMAIN players
            /\ \A m \in DOMAIN players \ {n} : r.g.players[m] = players[m]

-----------------------------------------------------------------------------
(* double_down *)

\* a seat that split has just doubled down on its split hand
C27_Witness ==
    /\ last.op = "double_down"
    /\ last.seat \in DOMAIN players
    /\ players[last.seat].has_split
    /\ players[last.seat].split_bet = 2 * players[last.seat].current_bet
    /\ Len(players[last.seat].split_hand[1]) = 3
    /\ players[last.seat].has_acted

\* C27: double_down succeeds only with can_double_down True and the bet of
\* the hand in play (split_bet on the split hand, current_bet otherwise) at
\* most the balance; it takes that bet from the balance, doubles it, deals
\* one card to that hand and ends the hand (busted with result lose above 21,
\* stood otherwise); on the first hand of a seat that split it passes to the
\* split hand, on a split hand or an unsplit hand it sets has_acted and
\* passes the turn on.
C27_DoubleDownEffect ==
    \A n \in Seats :
        LET r == double_down(Game, n)
        IN r.ok =>
            LET p == players[n]
                q == r.g.players[n]
                onSplit == p.has_split /\ p.playing_split_hand
                bet == IF onSplit THEN p.split_bet ELSE p.current_bet
            IN /\ CanAct(Game, n)
               /\ p.can_double_down
               /\ bet <= p.balance
               /\ q.balance = p.balance - bet
               /\ r.g.deck = Tail(deck)
               /\ r.g.dealer_hand = dealer_hand
               /\ \A m \in DOMAIN players \ {n} : r.g.players[m] = players[m]
               /\ IF onSplit
                  THEN /\ q.split_bet = 2 * bet /\ q.current_bet = p.current_bet
                       /\ q.split_hand = SomeHand(Append(p.split_hand[1], Head(deck)))
                       /\ q.hand = p.hand
                       /\ IF calculate_value(q.split_hand[1]) > 21
                          THEN q.split_busted /\ q.split_result = "lose"
                          ELSE q.split_stood /\ q.split_result = "none"
                  ELSE /\ q.current_bet = 2 * bet /\ q.split_bet = p.split_bet
                       /\ q.hand = Append(p.hand, Head(deck))
                       /\ q.split_hand = p.split_hand
                       /\ IF calculate_value(q.hand) > 21
                          THEN q.busted /\ q.result = "lose"
                          ELSE q.stood /\ q.result = "none"
               /\ IF ~onSplit /\ p.has_split
                  THEN /\ q.playing_split_hand
                       /\ q.has_acted = p.has_acted
                       /\ r.g.current_player_turn = n
                       /\ r.g.phase = "playing"
                  ELSE /\ q.has_acted
                       /\ r.g.current_player_turn = LowestPendingAfter(n)
                       /\ r.g.phase = IF LowestPendingAfter(n) = NONE
                                      THEN "dealer_turn" ELSE "playing"

-----------------------------------------------------------------------------
(* The deal *)

\* the last bet of two seats was placed and the deal left both seats and the
\* dealer with two cards
C28_Witness ==
    /\ last.op = "place_bet"
    /\ phase = "playing"
    /\ Cardinality(DOMAIN players) = 2
    /\ \A n \in DOMAIN players : players[n].has_bet /\ Len(players[n].hand) = 2
    /\ Len(dealer_hand) = 2

\* C28: start_playing_phase with k betting seats takes the first 2(k+1)
\* cards of the shoe in order: in each of two passes one card to every betting
\* seat in ascending player number and then one to the dealer, so that every
\* betting seat and the dealer hold two cards and the shoe is 2(k+1) cards
\* shorter; it is refused unless the phase is betting and every seated
\* player has bet.
C28_DealOrder ==
    /\ start_playing_phase(Game).ok => phase = "betting" /\ all_bets_placed(Game)
    /\ \A n \in DOMAIN players : \A a \in BetInputs(n) :
          LET b == place_bet(Game, n, a)
              r == start_playing_phase(b.g)
              seats == Sorted({m \in DOMAIN b.g.players : b.g.players[m].has_bet})
              k == Len(seats)
          IN (b.ok /\ r.ok) =>
                /\ b.g.phase = "betting" /\ all_bets_placed(b.g)
                /\ Len(b.g.deck) >= 2 * (k + 1)
                /\ \A i \in 1..k :
                      r.g.players[seats[i]].hand
                          = <<b.g.deck[i], b.g.deck[k + 1 + i]>>
                /\ r.g.dealer_hand = <<b.g.deck[k + 1], b.g.deck[2 * k + 2]>>
                /\ r.g.deck = SubSeq(b.g.deck, 2 * k + 3, Len(b.g.deck))
                /\ Len(r.g.deck) = Len(b.g.deck) - 2 * (k + 1)

-----------------------------------------------------------------------------
(* start_betting_phase *)

\* a second round was started after a round that changed a balance: every
\* seat is reset and keeps its balance
C29_Witness ==
    /\ last.op = "start_round"
    /\ rounds = 2
    /\ phase = "betting"
    /\ \E n \in DOMAIN players : players[n].balance # StartBalance
    /\ \A n \in DOMAIN players :
          players[n] = PlayerState(n, players[n].user_id, players[n].balance)

\* C29: start_betting_phase with at least one seat sets phase betting,
\* round_active True and the turn None, empties the dealer's hand and, for
\* every seat, empties both hands, zeroes both bets, clears every flag and
\* both results, and leaves the balance, player number and user id of each
\* seat and the set of seats as they were; with no seat it changes nothing.
C29_BettingPhaseResets ==
    \A shoe \in Shuffles :
        LET r == start_betting_phase(Game, shoe)
        IN /\ r.ok
           /\ DOMAIN players = {} => r.g = Game
           /\ DOMAIN players # {} =>
                 /\ r.g.phase = "betting"
                 /\ r.g.round_active
                 /\ r.g.current_player_turn = NONE
                 /\ r.g.dealer_hand = <<>>
                 /\ DOMAIN r.g.players = DOMAIN players
                 /\ \A n \in DOMAIN players :
                       r.g.players[n] = PlayerState(players[n].player_number,
                                                    players[n].user_id,
                                                    players[n].balance)

-----------------------------------------------------------------------------
(* The shoe between rounds *)

\* d holds every card of a new shoe, each as often as the new shoe does
IsFullShoe(d) ==
    /\ Len(d) = Len(FreshShoe)
    /\ \A i \in 1..Len(FreshShoe) : \E j \in 1..Len(d) : d[j] = FreshShoe[i]

\* what start_betting_phase is to do with the shoe
RebuiltWhenShort(g, shoe) ==
    LET r == start_betting_phase(g, shoe)
    IN /\ Len(g.deck) < ReshuffleBelow => r.g.deck = shoe /\ IsFullShoe(r.g.deck)
       /\ Len(g.deck) >= ReshuffleBelow => r.g.deck = g.deck
       /\ Len(r.g.deck) >= ReshuffleBelow

-----------------------------------------------------------------------------
(* Bust hands *)

\* the round is over with the dealer bust; a seat that split won its first
\* hand and kept the lose of its bust split hand
C31_Witness ==
    /\ phase = "round_over"
    /\ is_bust(dealer_hand)
    /\ \E n \in DOMAIN players :
          /\ players[n].has_split
          /\ is_bust(players[n].split_hand[1])
          /\ players[n].split_result = "lose"
          /\ players[n].result = "win"

\* C31: a hand that busts, the first hand or the split hand, by hit or by
\* double_down, has result lose from then on, and dealer_play credits nothing
\* for it even when the dealer busts as well.
C31_BustHandLoses ==
    /\ \A n \in DOMAIN players :
          /\ (is_bust(players[n].hand) \/ players[n].busted) =>
                players[n].result = "lose"
          /\ players[n].split_hand # NoHand =>
                ((is_bust(players[n].split_hand[1]) \/ players[n].split_busted) =>
                    players[n].split_result = "lose")
    /\ \A g1 \in BeforeDealer :
          LET d == dealer_play(g1)
          IN d.ok =>
               \A n \in DOMAIN g1.players :
                  LET p == g1.players[n]
                      q == d.g.players[n]
                      firstBust == is_bust(p.hand)
                      secondBust == p.has_split /\ is_bust(p.split_hand[1])
                  IN /\ firstBust => q.result = "lose"
                     /\ secondBust => q.split_result = "lose"
                     /\ (firstBust /\ (~p.has_split \/ secondBust)) =>
                           q.balance = p.balance
                     /\ (firstBust /\ p.has_split /\ ~secondBust) =>
                           q.balance = p.balance
                               + PlainCredit(calculate_value(p.split_hand[1]),
                                             p.split_bet, d.g.dealer_hand)
                     /\ (~firstBust /\ secondBust) =>
                           q.balance = p.balance
                               + PlainCredit(calculate_value(p.hand),
                                             p.current_bet, d.g.dealer_hand)

-----------------------------------------------------------------------------
(* Balances *)

\* a seat has staked all it had: it split and doubled down and holds nothing
C32_Witness ==
    /\ last.op = "double_down"
    /\ last.seat \in DOMAIN players
    /\ players[last.seat].has_split
    /\ players[last.seat].balance = 0
    /\ players[last.seat].current_bet + players[last.seat].split_bet = StartBalance

\* C32: in every reachable game every seat's balance is at least 0 and
\* neither current_bet nor split_bet is negative, and no place_bet,
\* double_down or split that is accepted leaves a balance below 0.
C32_BalanceNeverNegative ==
    \A n \in DOMAIN players :
        /\ players[n].balance >= 0
        /\ players[n].current_bet >= 0
        /\ players[n].split_bet >= 0
        /\ \A a \in BetInputs(n) :
              place_bet(Game, n, a).ok =>
                  /\ place_bet(Game, n, a).g.players[n].balance >= 0
                  /\ place_bet(Game, n, a).g.players[n].current_bet > 0
        /\ double_down(Game, n).ok => double_down(Game, n).g.players[n].balance >= 0
        /\ split(Game, n).ok => split(Game, n).g.players[n].balance >= 0

-----------------------------------------------------------------------------
(* One split per round *)

\* a seat split and then hit its first hand: it holds the turn and a second
\* split is refused
C33_Witness ==
    /\ last.op = "hit"
    /\ last.seat \in DOMAIN players
    /\ current_player_turn = last.seat
    /\ players[last.seat].has_split
    /\ players[last.seat].balance >= players[last.seat].current_bet
    /\ ~split(Game, last.seat).ok

\* the games a playing action of seat n leaves
AfterActionOf(n) ==
    {r.g : r \in {x \in {hit(Game, n), double_down(Game, n), split(Game, n)} : x.ok}}

\* C33: split succeeds only with can_split True, current_bet at most the
\* balance and has_split False; can_split is set at the deal to (the two
\* cards have the same rank and the balance is at least current_bet), so the
\* hand that is split is a pair; and after a hit, a double_down or a split of
\* a seat, split by that seat fails.
C33_OneSplitPerRound ==
    /\ \A n \in DOMAIN players :
          /\ split(Game, n).ok =>
                /\ CanAct(Game, n)
                /\ players[n].can_split
                /\ players[n].current_bet <= players[n].balance
                /\ ~players[n].has_split
                /\ Len(players[n].hand) = 2
                /\ players[n].hand[1].rank = players[n].hand[2].rank
          /\ (players[n].has_split \/ Len(players[n].hand) > 2) =>
                ~players[n].can_split /\ ~split(Game, n).ok
          /\ \A g1 \in AfterActionOf(n) :
                n \in DOMAIN g1.players =>
                    ~g1.players[n].can_split /\ ~split(g1, n).ok
    /\ \A n \in DOMAIN players : \A a \in BetInputs(n) :
          LET r == svc_place_bet(Game, n, a)
          IN (r.ok /\ r.g.phase = "playing") =>
                \A m \in DOMAIN r.g.players :
                    LET q == r.g.players[m]
                    IN q.has_bet =>
                          q.can_split = (q.hand[1].rank = q.hand[2].rank
                                         /\ q.balance >= q.current_bet)

-----------------------------------------------------------------------------
(* Phase checks of place_bet and start_betting_phase *)

\* a round is in play and the seat holding the turn still has chips: the
\* engine would take its bet, GameService refuses it
C34_Witness ==
    /\ phase = "playing"
    /\ \E c \in Connections :
          /\ sessions[c] \in DOMAIN players
          /\ current_player_turn = sessions[c]
          /\ place_bet(Game, sessions[c], 1).ok
          /\ ~svc_place_bet(Game, sessions[c], 1).ok
          /\ \A shoe \in Shuffles : ~svc_start_round(Game, sessions[c], shoe).ok

\* C34: a bet is accepted only while the phase is betting and a betting
\* phase is started only from waiting or round_over: GameService refuses
\* place_bet in waiting, playing or round_over and start_round in betting or
\* playing, and the stored game stays as it is.
C34_ServiceChecksPhase ==
    [][/\ last'.op = "place_bet" => phase = "betting"
       /\ last'.op = "start_round" => phase \in {"waiting", "round_over"}
       /\ \A c \in Connections :
             /\ phase # "betting" =>
                   \A a \in Amounts : ~svc_place_bet(Game, sessions[c], a).ok
             /\ phase \notin {"waiting", "round_over"} =>
                   \A shoe \in Shuffles :
                       ~svc_start_round(Game, sessions[c], shoe).ok]_vars

-----------------------------------------------------------------------------
(* The deal after the last bet *)

\* C35: whenever the phase is betting, a seat is present and every seated
\* player has bet, the deal takes place: no stored game rests in betting
\* with all bets placed, also when the only seat that had not bet leaves or
\* disconnects.
C35_NoRestInBettingWithAllBets ==
    ~(phase = "betting" /\ DOMAIN players # {} /\ all_bets_placed(Game))

-----------------------------------------------------------------------------
(* Finished hands *)

\* C36: once a hand is stood or busted it is dealt no further card and its
\* bet no longer changes, and no hand is both stood and busted; so after a
\* split whose first hand makes 21 and is marked stood, a hit or a
\* double_down of the seat does not draw into the first hand.
C36_FinishedHandIsClosed ==
    [][/\ ~(phase # "betting" /\ phase' = "betting") =>
             \A n \in DOMAIN players \cap DOMAIN players' :
                 /\ (players[n].stood \/ players[n].busted) =>
                        /\ players'[n].hand = players[n].hand
                        /\ players'[n].current_bet = players[n].current_bet
                 /\ (players[n].split_stood \/ players[n].split_busted) =>
                        /\ players'[n].split_hand = players[n].split_hand
                        /\ players'[n].split_bet = players[n].split_bet
       /\ \A n \in DOMAIN players' :
             /\ ~(players'[n].stood /\ players'[n].busted)
             /\ ~(players'[n].split_stood /\ players'[n].split_busted)]_vars

\* C37: double_down succeeds only on a hand of exactly two cards: in every
\* stored game, if double_down of a seat would succeed, the hand it doubles
\* (the split hand while it is being played, the first hand otherwise) holds
\* two cards.
C37_DoubleOnlyOnTwoCards ==
    \A n \in DOMAIN players :
        double_down(Game, n).ok =>
            IF players[n].has_split /\ players[n].playing_split_hand
            THEN Len(players[n].split_hand[1]) = 2
            ELSE Len(players[n].hand) = 2

-----------------------------------------------------------------------------
(* Chips over a round *)

\* _save_hand_history: the chip_change written to the hand history of a player
chip_change(p) ==
    LET initial_bet == p.current_bet
        first == IF p.result = "blackjack" THEN (3 * initial_bet) \div 2
                 ELSE IF p.result = "win" THEN initial_bet
                 ELSE IF p.result = "push" THEN 0
                 ELSE 0 - initial_bet
    IN IF p.has_split
       THEN IF p.split_result = "win" THEN first + p.split_bet
            ELSE IF p.split_result = "push" THEN first
            ELSE first - p.split_bet
       ELSE first

\* C38: chips are conserved over a round: when the first round is over, every
\* seat's balance is the balance it started with plus the chip_change of its
\* hand history, so nothing was debited except a settled stake, also when a
\* seat placed its bet more than once.
C38_ChipsConserved ==
    (phase = "round_over" /\ rounds = 1) =>
        \A n \in DOMAIN players :
            players[n].balance = StartBalance + chip_change(players[n])

-----------------------------------------------------------------------------
(* Joins side by side: GameService.join_game reads the game with get_item,
   seats the user on its copy and writes the copy back with an unconditional
   update_item, then records the player number in the session. *)

MaxJoin == 4
JoinConns == 1..MaxJoin

\* the state GameService.create_game leaves, with the connections that are
\* about to join
JoinInit ==
    /\ \E shoe \in Shuffles :
        LET g == add_player(NewGame(shoe), 1, UserOf(1), StartBalance).g
        IN /\ deck = g.deck
           /\ dealer_hand = g.dealer_hand
           /\ players = g.players
           /\ phase = g.phase
           /\ current_player_turn = g.current_player_turn
           /\ round_active = g.round_active
    /\ sessions = [c \in JoinConns |-> IF c = 1 THEN 1 ELSE NONE]
    /\ user_chips = [u \in {UserOf(1)} |-> StartBalance]
    /\ last = NoCall
    /\ rounds = 0
    /\ inflight = [c \in JoinConns |-> NoRequest]
    /\ NoAds

\* games_table.get_item at the start of join_game
JoinLoad(c) ==
    /\ inflight[c] = NoRequest
    /\ sessions[c] = NONE
    /\ inflight' = [inflight EXCEPT ![c] =
                        [op |-> "join_game", seat |-> NONE, amount |-> 0,
                         snap |-> Game]]
    /\ UNCHANGED <<gamevars, sessions, user_chips, last, rounds, advars>>

\* the rest of join_game: the seat search and add_player on the copy that was
\* read, games_table.update_item, then session_manager.join_game
JoinSave(c) ==
    /\ inflight[c] # NoRequest
    /\ LET snap == inflight[c].snap
           r == svc_join_game(snap, UserOf(c), user_chips)
       IN /\ Store(r)
          /\ sessions' = IF r.ok THEN [sessions EXCEPT ![c] = FreeSeat(snap)]
                         ELSE sessions
          /\ user_chips' =
                IF r.ok /\ UserOf(c) \notin DOMAIN user_chips
                THEN [u \in DOMAIN user_chips \cup {UserOf(c)} |->
                         IF u = UserOf(c) THEN StartBalance ELSE user_chips[u]]
                ELSE user_chips
          /\ last' = [op |-> "join_game",
                      seat |-> IF r.ok THEN FreeSeat(snap) ELSE NONE, ok |-> r.ok]
    /\ inflight' = [inflight EXCEPT ![c] = NoRequest]
    /\ UNCHANGED <<rounds, advars>>

JoinNext ==
    \/ \E c \in JoinConns : JoinLoad(c)
    \/ \E c \in JoinConns : JoinSave(c)

JoinSpec == JoinInit /\ [][JoinNext]_vars

\* C39: connections that join side by side get distinct seats that are all in
\* the stored game: no two sessions carry the same player_number, every
\* session's seat is a seat of the stored game, and the game never holds more
\* than MAX_PLAYERS seats.
C39_JoinsGetDistinctSeats ==
    /\ \A c, d \in DOMAIN sessions :
          (c # d /\ sessions[c] \notin {NONE, GONE}) => sessions[c] # sessions[d]
    /\ \A c \in DOMAIN sessions :
          sessions[c] \notin {NONE, GONE} => sessions[c] \in DOMAIN players
    /\ Cardinality(DOMAIN players) <= MAX_PLAYERS

-----------------------------------------------------------------------------
(* Ad rewards: GameService.claim_ad_reward reads the user's row of the user
   chips table, checks the cooldown against the row's last_ad_claim and
   writes the whole row back with put_item; _update_user_chips, called for
   every player when a round is settled, writes the row with put_item too. *)

AD_REWARD_AMOUNT == 100
AD_COOLDOWN_SECONDS == 300

TickSeconds == 100
MaxTime == 600
AdUsers == {UserOf(1), UserOf(2)}
\* the balances a seat can leave a round with
SettledBalances == {0, StartBalance}

\* row.get('last_ad_claim', 0) and row.get('total_ads_watched', 0)
AdFields(rows, u) ==
    IF u \in DOMAIN rows THEN rows[u]
    ELSE [last_ad_claim |-> 0, total_ads_watched |-> 0]

\* put_item of a row's chip_balance
PutBalance(chips, u, b) ==
    [v \in DOMAIN chips \cup {u} |-> IF v = u THEN b ELSE chips[v]]

\* claim_ad_reward up to the second get_item: the timestamp is taken, the
\* balance is read (a user without a row is given one with the default
\* balance) and the row is read for last_ad_claim and total_ads_watched
ClaimRead(c, u) ==
    /\ inflight[c] = NoRequest
    /\ inflight' = [inflight EXCEPT ![c] =
          [op |-> "claim_ad_reward", user |-> u, timestamp |-> now,
           current_balance |-> _get_user_chip_balance(user_chips, u, StartBalance),
           last_ad_claim |-> AdFields(ad_rows, u).last_ad_claim,
           total_ads_watched |-> AdFields(ad_rows, u).total_ads_watched]]
    /\ user_chips' = IF u \in DOMAIN user_chips THEN user_chips
                     ELSE PutBalance(user_chips, u, StartBalance)
    /\ UNCHANGED <<gamevars, sessions, last, rounds, now, ad_rows, ad_claims>>

\* the rest of claim_ad_reward: the cooldown check on what was read, then
\* put_item of the row with the new balance and last_ad_claim
ClaimWrite(c) ==
    /\ inflight[c] # NoRequest
    /\ LET q == inflight[c]
           ok == ~(q.timestamp - q.last_ad_claim < AD_COOLDOWN_SECONDS)
           new_balance == q.current_balance + AD_REWARD_AMOUNT
       IN /\ user_chips' = IF ok THEN PutBalance(user_chips, q.user, new_balance)
                           ELSE user_chips
          /\ ad_rows' =
                IF ok
                THEN [v \in DOMAIN ad_rows \cup {q.user} |->
                         IF v = q.user
                         THEN [last_ad_claim |-> q.timestamp,
                               total_ads_watched |-> q.total_ads_watched + 1]
                         ELSE ad_rows[v]]
                ELSE ad_rows
          /\ ad_claims' =
                IF ok
                THEN [v \in DOMAIN ad_claims \cup {q.user} |->
                         IF v = q.user THEN q.timestamp ELSE ad_claims[v]]
                ELSE ad_claims
          /\ last' = [op |-> "claim_ad_reward", seat |-> NONE, ok |-> ok]
    /\ inflight' = [inflight EXCEPT ![c] = NoRequest]
    /\ UNCHANGED <<gamevars, sessions, rounds, now>>

\* _update_user_chips for a player of a settled round: the row is replaced
\* by one with user_id, chip_balance and last_updated only
UpdateUserChips(u, chip_balance) ==
    /\ u \in DOMAIN user_chips
    /\ user_chips' = PutBalance(user_chips, u, chip_balance)
    /\ ad_rows' = [v \in DOMAIN ad_rows \ {u} |-> ad_rows[v]]
    /\ last' = [op |-> "_update_user_chips", seat |-> NONE, ok |-> TRUE]
    /\ UNCHANGED <<gamevars, sessions, rounds, inflight, now, ad_claims>>

\* time passes
Tick ==
    /\ now < MaxTime
    /\ now' = now + TickSeconds
    /\ UNCHANGED <<gamevars, sessions, user_chips, last, rounds, inflight,
                   ad_rows, ad_claims>>

AdNext ==
    \/ \E c \in Connections, u \in AdUsers : ClaimRead(c, u)
    \/ \E c \in Connections : ClaimWrite(c)
    \/ \E u \in AdUsers, b \in SettledBalances : UpdateUserChips(u, b)
    \/ Tick

\* the state GameService.create_game leaves; the game is not played on
AdInit ==
    /\ LET g == add_player(NewGame(FreshShoe), 1, UserOf(1), StartBalance).g
       IN /\ deck = g.deck
          /\ dealer_hand = g.dealer_hand
          /\ players = g.players
          /\ phase = g.phase
          /\ current_player_turn = g.current_player_turn
          /\ round_active = g.round_active
    /\ sessions = [c \in Connections |-> IF c = 1 THEN 1 ELSE NONE]
    /\ user_chips = [u \in {UserOf(1)} |-> StartBalance]
    /\ last = NoCall
    /\ rounds = 0
    /\ inflight = [c \in Connections |-> NoRequest]
    /\ NoAds

AdSpec == AdInit /\ [][AdNext]_vars

\* C40: two claim_ad_reward calls of a user that succeed are at least
\* AD_COOLDOWN_SECONDS apart, and a call that succeeds adds exactly
\* AD_REWARD_AMOUNT to the user's chip_balance in the table, whatever rounds
\* are settled in between and whatever other claims of the user are under way.
C40_ClaimsApartAndCredited ==
    [][\A c \in Connections :
          (inflight[c] # NoRequest /\ inflight'[c] = NoRequest /\ last'.ok) =>
              LET u == inflight[c].user
              IN /\ u \in DOMAIN ad_claims =>
                       inflight[c].timestamp - ad_claims[u] >= AD_COOLDOWN_SECONDS
                 /\ user_chips'[u] = user_chips[u] + AD_REWARD_AMOUNT]_vars

=============================================================================
